---------------------------- MODULE Spec2Model ----------------------------
(***************************************************************************)
(* Model of the derivation pipeline of src/src/App.js: getFilteredCards,   *)
(* getSortedCards, getTieredCards and the tier-mode rendering, over the    *)
(* component state (cards, filters, currentSetId, sortBy, displayMode).    *)
(*                                                                         *)
(* src/src/App.js holds two revisions of the component: lines 1-1854 and   *)
(* lines 1856-3841.  They differ, for the pipeline, only in the comparator *)
(* of getSortedCards; the variable `revision` says which one is running.   *)
(*                                                                         *)
(* Encoding of JavaScript values                                           *)
(*   numbers    [t |-> "number", n |-> k]; a rating is held in tenths      *)
(*              (3.7 is n = 37), a manaCost and a length as the integer.   *)
(*              Infinity, -Infinity and NaN are the tags of the same name. *)
(*   undefined  [t |-> "undefined", ...] (an absent field reads undefined) *)
(*   null       [t |-> "null", ...]                                        *)
(*   strings    name and comment: [t |-> "string", v |-> <<chars>>];       *)
(*              colour, rarity and type tokens are TLA+ strings, with the  *)
(*              English names of the tokens of the source: "Multicolor" is *)
(*              the filter token written '多色' in App.js:27.              *)
(*   arrays     [t |-> "array", v |-> <<elements>>]                        *)
(***************************************************************************)
EXTENDS Integers, Sequences, FiniteSets, TLC

VARIABLES revision, cards, filters, currentSetId, sortBy, displayMode,
          filteredCards, filteredAndSortedCards, tieredCards, renderedTiers,
          cardDocs, setDocs, customAttributeDocs, storage,
          lastCall, lastUpdate, console,
          editingCard, editedCard, bulkModal,
          loading, nextId, uploadTask, bulkTask, deleteSetTask, deleteAttributeTask,
          now, inFlight, deleteCardTask, backFaceTask

\* The collections of Firestore and the blob storage: cardDocs is a function
\* from document id to document data, setDocs and customAttributeDocs are
\* sets of document ids, storage is the set of stored image paths.
stores == <<cardDocs, setDocs, customAttributeDocs, storage>>

\* lastCall is the latest call of a handler, lastUpdate the latest updateDoc
\* call of handleUpdateCard, console the set of messages logged by
\* console.error and console.warn.
history == <<lastCall, lastUpdate, console>>

\* editingCard is the card the edit form was opened on, editedCard the card
\* the form holds, bulkModal the selection of the bulk assignment modal.
forms == <<editingCard, editedCard, bulkModal>>

\* loading is the loading flag, nextId the id addDoc gives to the next
\* document; the others are the running calls of the asynchronous handlers.
tasks == <<loading, nextId, uploadTask, bulkTask, deleteSetTask, deleteAttributeTask>>

\* now is the time new Date() reads, inFlight the set of the writes that
\* other sessions of the user have issued and that have not reached the
\* repository yet.
world == <<now, inFlight>>

\* The running calls of handleDeleteCard and of handleBackFaceFileChange of
\* the edit form.
cardTasks == <<deleteCardTask, backFaceTask>>

backend == <<stores, history, forms, tasks, world, cardTasks>>

vars == <<revision, cards, filters, currentSetId, sortBy, displayMode,
          filteredCards, filteredAndSortedCards, tieredCards, renderedTiers,
          backend>>

\* ------------------------------------------------------------------------
\* Bounds of the model
\* ------------------------------------------------------------------------
MaxSortCards == 2

MaxFilterCards == 1

MaxTierCards == 2

MaxMana == 2

\* The number of card documents of the repository specifications
MaxCards == 1

\* The number of files of an upload request
MaxFiles == 2

\* The number of card documents offered to the bulk assignment modals
MaxBulkCards == 2

\* The number of card documents of the set that is deleted
MaxSetCards == 2

\* ------------------------------------------------------------------------
\* JavaScript values and the operators the pipeline applies to them
\* ------------------------------------------------------------------------
Num(k) == [t |-> "number", n |-> k]

Undefined == [t |-> "undefined", n |-> 0]

Null == [t |-> "null", n |-> 0]

Infinity == [t |-> "Infinity", n |-> 0]

NegInfinity == [t |-> "-Infinity", n |-> 0]

NaN == [t |-> "NaN", n |-> 0]

IsNum(x) == x.t = "number"

\* x !== y on numbers and undefined/null: NaN differs from everything.
StrictNe(x, y) == x.t = "NaN" \/ y.t = "NaN" \/ x # y

\* x - y on numeric values (finite, +-Infinity, NaN).
Sub(x, y) ==
  IF x.t = "NaN" \/ y.t = "NaN" THEN NaN
  ELSE IF x.t = "number" /\ y.t = "number" THEN Num(x.n - y.n)
  ELSE IF x.t = y.t THEN NaN
  ELSE IF x.t = "Infinity" \/ y.t = "-Infinity" THEN Infinity
  ELSE NegInfinity

\* The use Array.prototype.sort makes of a comparator's result v:
\* v < 0, v > 0, and NaN counted as +0.
Sign(v) ==
  IF v.t = "Infinity" THEN 1
  ELSE IF v.t = "-Infinity" THEN -1
  ELSE IF v.t = "number" THEN (IF v.n < 0 THEN -1 ELSE IF v.n > 0 THEN 1 ELSE 0)
  ELSE 0

\* x || 0 on a number-valued field: undefined, null, NaN and 0 give 0.
OrZero(x) == IF x.t = "number" THEN x ELSE Num(0)

\* ------------------------------------------------------------------------
\* Strings: name and comment
\* ------------------------------------------------------------------------
Str(s) == [t |-> "string", v |-> s]

NoStr == [t |-> "undefined", v |-> <<>>]

\* a.name || '' : undefined and the empty string give ''.
OrEmpty(x) == IF x.t = "string" THEN x.v ELSE <<>>

LowerOf(c) == IF c = "A" THEN "a" ELSE IF c = "B" THEN "b" ELSE c

\* String.prototype.toLowerCase
toLowerCase(s) == [i \in 1..Len(s) |-> LowerOf(s[i])]

\* String.prototype.includes
includes(s, sub) ==
  \E i \in 0..(Len(s) - Len(sub)) :
    \A j \in 1..Len(sub) : s[i + j] = sub[j]

\* Collation weights used by localeCompare: the letter first, then
\* lower case before upper case.
Primary(c) == IF LowerOf(c) = "a" THEN 1 ELSE 2

Tertiary(c) == IF c = LowerOf(c) THEN 0 ELSE 1

RECURSIVE LexCompare(_, _, _, _)
LexCompare(W(_), s, u, i) ==
  IF i > Len(s) /\ i > Len(u) THEN 0
  ELSE IF i > Len(s) THEN -1
  ELSE IF i > Len(u) THEN 1
  ELSE IF W(s[i]) < W(u[i]) THEN -1
  ELSE IF W(s[i]) > W(u[i]) THEN 1
  ELSE LexCompare(W, s, u, i + 1)

\* String.prototype.localeCompare, as a number.
localeCompare(s, u) ==
  LET p == LexCompare(Primary, s, u, 1)
  IN  Num(IF p # 0 THEN p ELSE LexCompare(Tertiary, s, u, 1))

\* ------------------------------------------------------------------------
\* Arrays: color and customAttributeIds
\* ------------------------------------------------------------------------
Arr(s) == [t |-> "array", v |-> s]

NoArr == [t |-> "undefined", v |-> <<>>]

Elems(s) == {s[i] : i \in 1..Len(s)}

\* ------------------------------------------------------------------------
\* getSortedCards
\* ------------------------------------------------------------------------
SortKeys == {"default", "rating-desc", "rating-asc", "manaCost-asc",
             "manaCost-desc", "name-asc", "name-desc"}

manaOf(a) == IF a.manaCost.t \notin {"undefined", "null"} THEN a.manaCost ELSE Infinity

ratingOf(a) == IF a.rating.t \notin {"undefined", "null"} THEN a.rating ELSE Num(-1)

\* The length of a colour token as a string: '無色' (Colorless) has two
\* characters, the other colours of PRIMARY_COLORS have one.
TokenLength(token) == IF token = "Colorless" THEN 2 ELSE 1

\* (a.color || []).length: the length of the list, of [] for an absent
\* field, and of the string for a scalar colour.
colorsLength(a) ==
  IF a.color.t = "array" THEN Num(Len(a.color.v))
  ELSE IF a.color.t = "string" THEN Num(TokenLength(a.color.v[1]))
  ELSE Num(0)

nameOf(a) == OrEmpty(a.name)

\* defaultSort with the rating step ascending.
defaultSortRatingAsc(a, b) ==
  IF StrictNe(manaOf(a), manaOf(b)) THEN Sub(manaOf(a), manaOf(b))
  ELSE IF StrictNe(ratingOf(b), ratingOf(a)) THEN Sub(ratingOf(a), ratingOf(b))
  ELSE Sub(colorsLength(a), colorsLength(b))

defaultSort(a, b) ==
  IF StrictNe(manaOf(a), manaOf(b)) THEN Sub(manaOf(a), manaOf(b))
  ELSE IF StrictNe(ratingOf(b), ratingOf(a)) THEN Sub(ratingOf(b), ratingOf(a))
  ELSE Sub(colorsLength(a), colorsLength(b))

\* compare without the fall back to defaultSort under the rating keys.
compareNoFallback(a, b, key) ==
  CASE key = "rating-desc" -> Sub(ratingOf(b), ratingOf(a))
    [] key = "rating-asc" -> Sub(ratingOf(a), ratingOf(b))
    [] key = "manaCost-asc" ->
         IF StrictNe(manaOf(a), manaOf(b)) THEN Sub(manaOf(a), manaOf(b))
         ELSE defaultSort(a, b)
    [] key = "manaCost-desc" ->
         IF StrictNe(manaOf(b), manaOf(a)) THEN Sub(manaOf(b), manaOf(a))
         ELSE defaultSort(a, b)
    [] key = "name-asc" ->
         IF localeCompare(nameOf(a), nameOf(b)) # Num(0)
         THEN localeCompare(nameOf(a), nameOf(b))
         ELSE defaultSort(a, b)
    [] key = "name-desc" ->
         IF localeCompare(nameOf(b), nameOf(a)) # Num(0)
         THEN localeCompare(nameOf(b), nameOf(a))
         ELSE defaultSort(a, b)
    [] OTHER -> defaultSort(a, b)

\* The comparator of the first revision (App.js:655-696).
compare(a, b, key) ==
  CASE key = "rating-desc" ->
         IF StrictNe(ratingOf(b), ratingOf(a)) THEN Sub(ratingOf(b), ratingOf(a))
         ELSE defaultSort(a, b)
    [] key = "rating-asc" ->
         IF StrictNe(ratingOf(a), ratingOf(b)) THEN Sub(ratingOf(a), ratingOf(b))
         ELSE defaultSort(a, b)
    [] key = "manaCost-asc" ->
         IF StrictNe(manaOf(a), manaOf(b)) THEN Sub(manaOf(a), manaOf(b))
         ELSE defaultSort(a, b)
    [] key = "manaCost-desc" ->
         IF StrictNe(manaOf(b), manaOf(a)) THEN Sub(manaOf(b), manaOf(a))
         ELSE defaultSort(a, b)
    [] key = "name-asc" ->
         IF localeCompare(nameOf(a), nameOf(b)) # Num(0)
         THEN localeCompare(nameOf(a), nameOf(b))
         ELSE defaultSort(a, b)
    [] key = "name-desc" ->
         IF localeCompare(nameOf(b), nameOf(a)) # Num(0)
         THEN localeCompare(nameOf(b), nameOf(a))
         ELSE defaultSort(a, b)
    [] OTHER -> defaultSort(a, b)

\* The comparator of the second revision (App.js:2618-2641).
compareRev2(a, b, key) ==
  CASE key = "rating-desc" -> Sub(OrZero(b.rating), OrZero(a.rating))
    [] key = "rating-asc" -> Sub(OrZero(a.rating), OrZero(b.rating))
    [] key = "manaCost-asc" ->
         IF a.manaCost.t = "null" /\ b.manaCost.t = "null" THEN Num(0)
         ELSE IF a.manaCost.t = "null" THEN Num(1)
         ELSE IF b.manaCost.t = "null" THEN Num(-1)
         ELSE Sub(OrZero(a.manaCost), OrZero(b.manaCost))
    [] key = "manaCost-desc" ->
         IF a.manaCost.t = "null" /\ b.manaCost.t = "null" THEN Num(0)
         ELSE IF a.manaCost.t = "null" THEN Num(1)
         ELSE IF b.manaCost.t = "null" THEN Num(-1)
         ELSE Sub(OrZero(b.manaCost), OrZero(a.manaCost))
    [] key = "name-asc" -> localeCompare(nameOf(a), nameOf(b))
    [] key = "name-desc" -> localeCompare(nameOf(b), nameOf(a))
    [] OTHER -> Num(0)

comparator(rev, a, b, key) ==
  IF rev = 1 THEN compare(a, b, key) ELSE compareRev2(a, b, key)

\* Array.prototype.sort: a stable sort; x moves left past every element
\* the comparator puts after it.
RECURSIVE InsertSorted(_, _, _)
InsertSorted(Cmp(_, _), s, x) ==
  IF s = <<>> THEN <<x>>
  ELSE IF Sign(Cmp(s[Len(s)], x)) > 0
       THEN Append(InsertSorted(Cmp, SubSeq(s, 1, Len(s) - 1), x), s[Len(s)])
       ELSE Append(s, x)

RECURSIVE SortBy(_, _)
SortBy(Cmp(_, _), s) ==
  IF s = <<>> THEN <<>>
  ELSE InsertSorted(Cmp, SortBy(Cmp, SubSeq(s, 1, Len(s) - 1)), s[Len(s)])

getSortedCards(rev, key, filtered) ==
  LET Cmp(a, b) == comparator(rev, a, b, key)
  IN  SortBy(Cmp, filtered)

\* ------------------------------------------------------------------------
\* getFilteredCards
\* ------------------------------------------------------------------------
\* Array.isArray(card.color) ? card.color : [card.color]; the one element of
\* the wrapped list is the scalar colour, or undefined for an absent field.
cardColorsOf(card) ==
  IF card.color.t = "array" THEN card.color.v
  ELSE IF card.color.t = "string" THEN card.color.v
  ELSE <<"undefined">>

\* The filter lists (colors, rarities, types, customAttributeIds) are kept
\* as sets: the code reads them only through length, includes, filter and
\* every, and the checkboxes never put a token in twice.
\* colorGate with the multicolour test card.length >= 1.
colorGateAtLeastOne(card, f) ==
  LET cardColors == cardColorsOf(card)
      hasMulticolorFilter == "Multicolor" \in f.colors
      specificColorFilters == f.colors \ {"Multicolor"}
      multiMatch == hasMulticolorFilter /\ Len(cardColors) >= 1
      specificMatch == /\ specificColorFilters # {}
                       /\ \E i \in 1..Len(cardColors) :
                            cardColors[i] \in specificColorFilters
  IN  multiMatch \/ specificMatch

\* colorGate with the two requests as independent gates.
colorGateBoth(card, f) ==
  LET cardColors == cardColorsOf(card)
      hasMulticolorFilter == "Multicolor" \in f.colors
      specificColorFilters == f.colors \ {"Multicolor"}
  IN  /\ hasMulticolorFilter => Len(cardColors) > 1
      /\ specificColorFilters # {} =>
            \E i \in 1..Len(cardColors) : cardColors[i] \in specificColorFilters

colorGate(card, f) ==
  LET cardColors == cardColorsOf(card)
      hasMulticolorFilter == "Multicolor" \in f.colors
      specificColorFilters == f.colors \ {"Multicolor"}
      multiMatch == hasMulticolorFilter /\ Len(cardColors) > 1
      specificMatch == /\ specificColorFilters # {}
                       /\ \E i \in 1..Len(cardColors) :
                            cardColors[i] \in specificColorFilters
  IN  multiMatch \/ specificMatch

\* customAttributeGate with some in place of every.
customAttributeGateSome(card, f) ==
  /\ card.customAttributeIds.t = "array"
  /\ \E id \in f.customAttributeIds : id \in Elems(card.customAttributeIds.v)

customAttributeGate(card, f) ==
  /\ card.customAttributeIds.t = "array"
  /\ \A id \in f.customAttributeIds : id \in Elems(card.customAttributeIds.v)

\* card.name && card.name.toLowerCase().includes(term)
textMatch(field, term) ==
  /\ field.t = "string"
  /\ field.v # <<>>
  /\ includes(toLowerCase(field.v), term)

searchGate(card, f) ==
  LET lowerCaseSearchTerm == toLowerCase(f.searchTerm)
  IN  textMatch(card.name, lowerCaseSearchTerm)
        \/ textMatch(card.comment, lowerCaseSearchTerm)

\* currentSetId is null, '' (the empty option of the selector) or a set id;
\* null and '' are falsy.
Truthy(setId) == setId \notin {"null", ""}

\* matches without the type criterion.
matchesNoType(card, f, setId) ==
  IF Truthy(setId) /\ card.setId # setId THEN FALSE
  ELSE IF f.colors # {} /\ ~colorGate(card, f) THEN FALSE
  ELSE IF f.rarities # {} /\ card.rarity \notin f.rarities THEN FALSE
  ELSE IF f.isBomb /\ ~card.isBomb THEN FALSE
  ELSE IF f.customAttributeIds # {} /\ ~customAttributeGate(card, f) THEN FALSE
  ELSE IF f.searchTerm # <<>> /\ ~searchGate(card, f) THEN FALSE
  ELSE TRUE

\* The callback of cards.filter (App.js:616-650).
matches(card, f, setId) ==
  IF Truthy(setId) /\ card.setId # setId THEN FALSE
  ELSE IF f.colors # {} /\ ~colorGate(card, f) THEN FALSE
  ELSE IF f.rarities # {} /\ card.rarity \notin f.rarities THEN FALSE
  ELSE IF f.types # {} /\ card.type \notin f.types THEN FALSE
  ELSE IF f.isBomb /\ ~card.isBomb THEN FALSE
  ELSE IF f.customAttributeIds # {} /\ ~customAttributeGate(card, f) THEN FALSE
  ELSE IF f.searchTerm # <<>> /\ ~searchGate(card, f) THEN FALSE
  ELSE TRUE

\* Array.prototype.filter
RECURSIVE FilterSeq(_, _)
FilterSeq(Keep(_), s) ==
  IF s = <<>> THEN <<>>
  ELSE LET rest == FilterSeq(Keep, SubSeq(s, 1, Len(s) - 1))
       IN  IF Keep(s[Len(s)]) THEN Append(rest, s[Len(s)]) ELSE rest

getFilteredCards(cs, f, setId) ==
  LET Keep(card) == matches(card, f, setId)
  IN  FilterSeq(Keep, cs)

\* ------------------------------------------------------------------------
\* getTieredCards and the tier view
\* ------------------------------------------------------------------------
TierKeys == <<"0", "1", "2", "3", "4", "5">>

Digit(d) == <<"0", "1", "2", "3", "4", "5", "6", "7", "8", "9">>[d + 1]

\* Number.prototype.toString on an integer
RECURSIVE toString(_)
toString(k) ==
  IF k < 0 THEN "-" \o toString(-k)
  ELSE IF k < 10 THEN Digit(k)
  ELSE toString(k \div 10) \o Digit(k % 10)

\* parseInt on a tier key
parseInt(key) == CHOOSE k \in 0..9 : Digit(k) = key

\* Math.floor(card.rating || 0).toString(), the rating being in tenths
tierKeyOf(card) == toString(OrZero(card.rating).n \div 10)

\* bucketOf with a label above '5' clamped to '5'.
bucketOfClamped(card) ==
  IF tierKeyOf(card) \in Elems(TierKeys) THEN tierKeyOf(card)
  ELSE IF OrZero(card.rating).n > 0 THEN "5" ELSE "0"

\* The bucket a card is pushed to (App.js:708-713).
bucketOf(card) ==
  IF tierKeyOf(card) \in Elems(TierKeys) THEN tierKeyOf(card) ELSE "0"

tierCompare(a, b) == Sub(OrZero(a.rating), OrZero(b.rating))

\* The cards pushed to a bucket by a loop without the else branch.
pushedToByLabel(key, sortedCards) ==
  LET InTier(card) == tierKeyOf(card) = key
  IN  FilterSeq(InTier, sortedCards)

\* The cards the loop pushes to the bucket of a key, in the order of the
\* list (App.js:705-712).
pushedTo(key, sortedCards) ==
  LET InTier(card) == bucketOf(card) = key
  IN  FilterSeq(InTier, sortedCards)

\* getTieredCards without the sort of each bucket.
getTieredCardsUnsorted(sortedCards) ==
  [key \in Elems(TierKeys) |-> pushedTo(key, sortedCards)]

\* The buckets after grouping and sorting (App.js:703-721).
getTieredCards(sortedCards) ==
  [key \in Elems(TierKeys) |-> SortBy(tierCompare, pushedTo(key, sortedCards))]

\* Object.keys of the mapping: its integer keys in ascending order.
RECURSIVE ObjectKeys(_)
ObjectKeys(keys) ==
  IF keys = {} THEN <<>>
  ELSE LET first == CHOOSE k \in keys : \A j \in keys : parseInt(k) <= parseInt(j)
       IN  <<first>> \o ObjectKeys(keys \ {first})

\* tierOrder with the difference taken the other way.
tierOrderAscending(a, b) == Num(parseInt(a) - parseInt(b))

tierOrder(a, b) == Num(parseInt(b) - parseInt(a))

\* The keys of the buckets the tier view renders, in rendering order
\* (App.js:1776-1777); nothing of it is rendered in grid mode.
renderTiers(mode, tiers) ==
  LET NonEmpty(key) == Len(tiers[key]) > 0
  IN  IF mode = "tier"
      THEN FilterSeq(NonEmpty, SortBy(tierOrder, ObjectKeys(DOMAIN tiers)))
      ELSE <<>>

\* ------------------------------------------------------------------------
\* Card records and the inputs of the pipeline
\* ------------------------------------------------------------------------
\* The record handleUploadCards creates (App.js:404-420), with the fields
\* the pipeline reads and the two timestamps, here those of a card created
\* at time 0; id is the document id the snapshot adds.
newCard(name, colors, setId) ==
  [id |-> 0, name |-> Str(name), color |-> Arr(colors), rarity |-> "", type |-> "",
   rating |-> Num(0), manaCost |-> Null, isBomb |-> FALSE,
   customAttributeIds |-> Arr(<<>>), comment |-> Str(<<>>), setId |-> setId,
   createdAt |-> 0, updatedAt |-> 0]

\* snapshot.docs.map(doc => ({ id: doc.id, ...doc.data() })): the k-th
\* document of a snapshot has id k.
WithIds(docs) == [k \in 1..Len(docs) |-> [docs[k] EXCEPT !.id = k]]

Lists(D, n) == UNION {[1..k -> D] : k \in 0..n}

ManaCosts == {Undefined, Null} \cup {Num(k) : k \in 1..MaxMana}

SortRatings == {Undefined, Num(0), Num(45)}

BaseSortCard == newCard(<<"a">>, <<"Red">>, "s1")

\* Cards for getSortedCards: every manaCost with every rating, and cards
\* that differ from one of them in the colours, in the name or by a null
\* rating.
VariantCards ==
  {[BaseSortCard EXCEPT !.manaCost = Num(1), !.rating = Num(45), !.color = c] :
      c \in {NoArr, Arr(<<"Red", "Green">>)}}
  \cup {[BaseSortCard EXCEPT !.manaCost = Num(1), !.rating = Num(45), !.name = n] :
      n \in {NoStr, Str(<<"B">>)}}
  \cup {[BaseSortCard EXCEPT !.manaCost = Num(1), !.rating = Null]}

SortCards ==
  {[BaseSortCard EXCEPT !.manaCost = m, !.rating = r] :
      m \in ManaCosts, r \in SortRatings}
  \cup VariantCards

\* A smaller set of cards, for the lists of three cards.
TripleCards ==
  {[BaseSortCard EXCEPT !.manaCost = m, !.rating = r] :
      m \in {Null, Num(1), Num(2)}, r \in {Undefined, Num(45)}}
  \cup {[BaseSortCard EXCEPT !.manaCost = Num(1), !.rating = Num(45), !.color = NoArr],
        [BaseSortCard EXCEPT !.manaCost = Num(1), !.rating = Num(45), !.name = Str(<<"B">>)]}

Triples == [1..3 -> TripleCards]

\* The cards A(rating 4.5, manaCost 2), B(rating 4.5, manaCost 1) and
\* C(rating 2.0, manaCost 1), in every order of arrival.
CardA == [BaseSortCard EXCEPT !.rating = Num(45), !.manaCost = Num(2)]

CardB == [BaseSortCard EXCEPT !.rating = Num(45), !.manaCost = Num(1)]

CardC == [BaseSortCard EXCEPT !.rating = Num(20), !.manaCost = Num(1)]

ExampleLists ==
  {docs \in [1..3 -> {CardA, CardB, CardC}] : Elems(docs) = {CardA, CardB, CardC}}

\* ------------------------------------------------------------------------
\* The component: state, rendering and the handlers of the controls
\* ------------------------------------------------------------------------
NoFilters ==
  [colors |-> {}, rarities |-> {}, types |-> {}, isBomb |-> FALSE,
   customAttributeIds |-> {}, searchTerm |-> <<>>]

\* useState of sortBy: 'default' (App.js:263), 'rating-desc' (App.js:2134)
InitialSortBy(rev) == IF rev = 1 THEN "default" ELSE "rating-desc"

\* The options of the sort selector (App.js:1707-1713, 3684-3689)
SortOptions(rev) == IF rev = 1 THEN SortKeys ELSE SortKeys \ {"default"}

\* One rendering of App (App.js:700, 723, 1774-1800)
Render(rev, cs, f, setId, key, mode) ==
  LET filtered == getFilteredCards(cs, f, setId)
      sorted == getSortedCards(rev, key, filtered)
      tiers == getTieredCards(sorted)
  IN  /\ filteredCards' = filtered
      /\ filteredAndSortedCards' = sorted
      /\ tieredCards' = tiers
      /\ renderedTiers' = renderTiers(mode, tiers)

InitWith(Revisions, Inputs) ==
  /\ now = 0
  /\ revision \in Revisions
  /\ cards \in Inputs
  /\ filters = NoFilters
  /\ currentSetId = "null"
  /\ sortBy = InitialSortBy(revision)
  /\ displayMode = "grid"
  /\ filteredCards = getFilteredCards(cards, filters, currentSetId)
  /\ filteredAndSortedCards = getSortedCards(revision, sortBy, filteredCards)
  /\ tieredCards = getTieredCards(filteredAndSortedCards)
  /\ renderedTiers = renderTiers(displayMode, tieredCards)
  /\ cardDocs = [id \in DOMAIN cards |-> cards[id]]
  /\ lastCall = [handler |-> "none"]
  /\ setDocs = {cards[i].setId : i \in DOMAIN cards}
  /\ customAttributeDocs = UNION {Elems(cards[i].customAttributeIds.v) : i \in DOMAIN cards}
  /\ storage = UNION {IF "imageUrl" \in DOMAIN cards[i]
                      THEN {cards[i].imageUrl, cards[i].backFaceImageUrl} \ {<<>>}
                      ELSE {} : i \in DOMAIN cards}
  /\ editingCard = [id |-> 0]
  /\ editedCard = [id |-> 0]
  /\ bulkModal = [open |-> "none", selectedCards |-> {}, selected |-> ""]
  /\ loading = FALSE
  /\ nextId = Len(cards) + 1
  /\ inFlight = {}
  /\ deleteCardTask = [status |-> "idle"]
  /\ backFaceTask = [status |-> "idle"]
  /\ uploadTask = [status |-> "idle"]
  /\ bulkTask = [status |-> "idle"]
  /\ deleteSetTask = [status |-> "idle"]
  /\ deleteAttributeTask = [status |-> "idle"]
  /\ lastUpdate = [op |-> "none"]
  /\ console = {}

SetSortBy(key) ==
  /\ key \in SortOptions(revision)
  /\ sortBy' = key
  /\ UNCHANGED <<revision, cards, filters, currentSetId, displayMode, backend>>
  /\ Render(revision, cards, filters, currentSetId, key, displayMode)

SetDisplayMode(mode) ==
  /\ displayMode' = mode
  /\ UNCHANGED <<revision, cards, filters, currentSetId, sortBy, backend>>
  /\ Render(revision, cards, filters, currentSetId, sortBy, mode)

\* The checkboxes of the filter panel (App.js:1598-1605, 1622-1629,
\* 1646-1653, 1670-1677, 1692) and its search box (App.js:1582)
Toggle(list, token) == IF token \in list THEN list \ {token} ELSE list \cup {token}

SetFilters(f) ==
  /\ filters' = f
  /\ UNCHANGED <<revision, cards, currentSetId, sortBy, displayMode, backend>>
  /\ Render(revision, cards, f, currentSetId, sortBy, displayMode)

ToggleColorFilter(color) ==
  SetFilters([filters EXCEPT !.colors = Toggle(@, color)])

ToggleRarityFilter(rarity) ==
  SetFilters([filters EXCEPT !.rarities = Toggle(@, rarity)])

ToggleTypeFilter(type) ==
  SetFilters([filters EXCEPT !.types = Toggle(@, type)])

ToggleCustomAttributeFilter(id) ==
  SetFilters([filters EXCEPT !.customAttributeIds = Toggle(@, id)])

ToggleBombFilter ==
  SetFilters([filters EXCEPT !.isBomb = ~@])

SetSearchTerm(term) ==
  SetFilters([filters EXCEPT !.searchTerm = term])

\* The set selector (App.js:1519): '' for its empty option, or a set id
SetCurrentSetId(setId) ==
  /\ currentSetId' = setId
  /\ UNCHANGED <<revision, cards, filters, sortBy, displayMode, backend>>
  /\ Render(revision, cards, filters, setId, sortBy, displayMode)

SortInputs == Lists(SortCards, MaxSortCards) \cup Triples \cup ExampleLists

\* getSortedCards of the first revision
InitSort == InitWith({1}, {WithIds(docs) : docs \in SortInputs})

NextSort == \E key \in SortKeys : SetSortBy(key)

SpecSort == InitSort /\ [][NextSort]_vars

\* getSortedCards of either revision
InitSortRevisions ==
  InitWith({1, 2}, {WithIds(docs) : docs \in Lists(SortCards, MaxSortCards)})

SpecSortRevisions == InitSortRevisions /\ [][NextSort]_vars

\* ------------------------------------------------------------------------
\* The orders the sort is specified by
\* ------------------------------------------------------------------------
Unset(x) == x.t \in {"undefined", "null"}

ManaTie(a, b) ==
  \/ Unset(a.manaCost) /\ Unset(b.manaCost)
  \/ IsNum(a.manaCost) /\ IsNum(b.manaCost) /\ a.manaCost.n = b.manaCost.n

\* manaCost ascending, unset last
ManaBefore(a, b) ==
  /\ IsNum(a.manaCost)
  /\ Unset(b.manaCost) \/ a.manaCost.n < b.manaCost.n

\* an unset rating counts as -1.0
RatingValue(a) == IF IsNum(a.rating) THEN a.rating.n ELSE -10

ColorCount(a) == IF a.color.t = "array" THEN Len(a.color.v) ELSE 0

\* a comes strictly before b in the default chain
ChainBefore(a, b) ==
  \/ ManaBefore(a, b)
  \/ ManaTie(a, b) /\ RatingValue(a) > RatingValue(b)
  \/ ManaTie(a, b) /\ RatingValue(a) = RatingValue(b) /\ ColorCount(a) < ColorCount(b)

ChainTie(a, b) ==
  ManaTie(a, b) /\ RatingValue(a) = RatingValue(b) /\ ColorCount(a) = ColorCount(b)

NameValue(a) == IF a.name.t = "string" THEN a.name.v ELSE <<>>

PrimaryTie(a, b, key) ==
  CASE key \in {"rating-desc", "rating-asc"} -> RatingValue(a) = RatingValue(b)
    [] key \in {"manaCost-asc", "manaCost-desc"} -> ManaTie(a, b)
    [] key \in {"name-asc", "name-desc"} -> NameValue(a) = NameValue(b)
    [] OTHER -> TRUE

Positions == DOMAIN filteredAndSortedCards

\* ------------------------------------------------------------------------
\* Claims on getSortedCards
\* ------------------------------------------------------------------------
\* C1: under manaCost-asc and under manaCost-desc, a card whose manaCost is
\* a non-negative integer is placed before every card whose manaCost is unset
\* (null or absent).
C1_UnsetManaCostLast ==
  sortBy \in {"manaCost-asc", "manaCost-desc"} =>
    \A i, j \in Positions :
      ( /\ Unset(filteredAndSortedCards[i].manaCost)
        /\ IsNum(filteredAndSortedCards[j].manaCost)
        /\ filteredAndSortedCards[j].manaCost.n >= 0 ) => j < i

C7_FallbackToDefaultChain ==
  sortBy # "default" =>
    \A i, j \in Positions :
      (i < j /\ PrimaryTie(filteredAndSortedCards[i], filteredAndSortedCards[j], sortBy))
        => ~ChainBefore(filteredAndSortedCards[j], filteredAndSortedCards[i])

Scalar(token) == [t |-> "string", v |-> <<token>>]

\* A card that passes every control of FilterControls, and cards that
\* differ from it in the one field a criterion reads; the last two have no
\* name, one of them with a comment.
PassingCard ==
  [newCard(<<"A", "b">>, <<"Red">>, "s1") EXCEPT
     !.rarity = "Rare", !.type = "Creature", !.isBomb = TRUE,
     !.customAttributeIds = Arr(<<"x">>)]

FilterDeck ==
  << PassingCard,
     [PassingCard EXCEPT !.setId = "s2"],
     [PassingCard EXCEPT !.color = Arr(<<"Green">>)],
     [PassingCard EXCEPT !.rarity = ""],
     [PassingCard EXCEPT !.type = "Land"],
     [PassingCard EXCEPT !.isBomb = FALSE],
     [PassingCard EXCEPT !.customAttributeIds = NoArr],
     [PassingCard EXCEPT !.name = Str(<<"a">>)],
     [PassingCard EXCEPT !.name = NoStr, !.comment = Str(<<"a", "B">>)],
     [PassingCard EXCEPT !.name = NoStr, !.comment = NoStr] >>

\* Cards that differ in color only, and cards that differ in
\* customAttributeIds only.
GateDeck ==
  << [PassingCard EXCEPT !.color = NoArr],
     [PassingCard EXCEPT !.color = Arr(<<>>)],
     [PassingCard EXCEPT !.color = Arr(<<"Red">>)],
     [PassingCard EXCEPT !.color = Arr(<<"Green">>)],
     [PassingCard EXCEPT !.color = Arr(<<"Red", "Green">>)],
     [PassingCard EXCEPT !.color = Arr(<<"Blue", "Black">>)],
     [PassingCard EXCEPT !.color = Scalar("Red")],
     [PassingCard EXCEPT !.color = Scalar("Blue")],
     [PassingCard EXCEPT !.customAttributeIds = Arr(<<>>)],
     [PassingCard EXCEPT !.customAttributeIds = Arr(<<"y">>)],
     [PassingCard EXCEPT !.customAttributeIds = Arr(<<"x", "y">>)],
     [PassingCard EXCEPT !.customAttributeIds = Arr(<<"y", "z", "x">>)],
     [PassingCard EXCEPT !.customAttributeIds = NoArr] >>

\* The snapshots: the whole deck, and every list of at most MaxFilterCards
\* of its cards.
Snapshots(deck) ==
  {WithIds(docs) : docs \in {deck} \cup Lists(Elems(deck), MaxFilterCards)}

\* Every criterion, one token each
InitFilter == InitWith({1}, Snapshots(FilterDeck))

NextFilter ==
  \/ ToggleColorFilter("Red")
  \/ ToggleRarityFilter("Rare")
  \/ ToggleTypeFilter("Creature")
  \/ ToggleCustomAttributeFilter("x")
  \/ ToggleBombFilter
  \/ \E term \in {<<>>, <<"B">>} : SetSearchTerm(term)
  \/ \E setId \in {"", "s1"} : SetCurrentSetId(setId)

SpecFilter == InitFilter /\ [][NextFilter]_vars

\* The colour and custom attribute criteria, several tokens each
InitGates == InitWith({1}, Snapshots(GateDeck))

NextGates ==
  \/ \E color \in {"Red", "Green", "Multicolor"} : ToggleColorFilter(color)
  \/ \E id \in {"x", "y"} : ToggleCustomAttributeFilter(id)

SpecGates == InitGates /\ [][NextGates]_vars

\* ------------------------------------------------------------------------
\* The criteria getFilteredCards is specified by
\* ------------------------------------------------------------------------
\* The colours of a card: those of its list, its one scalar colour, none
\* for an absent field.
ColorsOf(card) == IF card.color.t = "undefined" THEN {} ELSE Elems(card.color.v)

NumColors(card) == IF card.color.t = "undefined" THEN 0 ELSE Len(card.color.v)

PassesColor(card, colors) ==
  \/ "Multicolor" \in colors /\ NumColors(card) > 1
  \/ (colors \ {"Multicolor"}) \cap ColorsOf(card) # {}

AttributesOf(card) ==
  IF card.customAttributeIds.t = "array" THEN Elems(card.customAttributeIds.v) ELSE {}

PassesAttributes(card, ids) == ids \subseteq AttributesOf(card)

ContainsIgnoringCase(field, term) ==
  field.t = "string" /\ includes(toLowerCase(field.v), toLowerCase(term))

PassesSearch(card, term) ==
  ContainsIgnoringCase(card.name, term) \/ ContainsIgnoringCase(card.comment, term)

ActiveSet == currentSetId \notin {"null", ""}

PassesAll(card) ==
  /\ ActiveSet => card.setId = currentSetId
  /\ filters.colors # {} => PassesColor(card, filters.colors)
  /\ filters.rarities # {} => card.rarity \in filters.rarities
  /\ filters.types # {} => card.type \in filters.types
  /\ filters.isBomb => card.isBomb
  /\ filters.customAttributeIds # {} => PassesAttributes(card, filters.customAttributeIds)
  /\ filters.searchTerm # <<>> => PassesSearch(card, filters.searchTerm)

Shown(card) == card \in Elems(filteredCards)

OnlyColors == [NoFilters EXCEPT !.colors = filters.colors]

MonoRed(card) == card.color = Arr(<<"Red">>)

\* ------------------------------------------------------------------------
\* Claims on getFilteredCards
\* ------------------------------------------------------------------------
\* C2: with filters.colors non-empty, a card that passes the other criteria
\* is in the result iff (Multicolor is requested and the card has more than
\* one colour) or (a specific colour is requested and the card has one of
\* the requested colours); a mono-red card fails {Multicolor}, passes {Red}
\* and passes {Red, Multicolor}.
C2_ColorGate ==
  filters.colors # {} =>
    /\ \A i \in DOMAIN cards :
         Shown(cards[i]) <=>
           /\ PassesColor(cards[i], filters.colors)
           /\ matches(cards[i], [filters EXCEPT !.colors = {}], currentSetId)
    /\ \A i \in DOMAIN cards :
         (MonoRed(cards[i]) /\ filters = OnlyColors /\ ~ActiveSet) =>
           /\ filters.colors = {"Multicolor"} => ~Shown(cards[i])
           /\ filters.colors = {"Red"} => Shown(cards[i])
           /\ filters.colors = {"Red", "Multicolor"} => Shown(cards[i])

\* {Red, Multicolor} is requested: the mono-red card and the two-coloured
\* card without red are shown, the mono-green card is not.
C2_Witness ==
  /\ filters = [NoFilters EXCEPT !.colors = {"Red", "Multicolor"}]
  /\ \E i, j, k \in DOMAIN cards :
       /\ MonoRed(cards[i]) /\ Shown(cards[i])
       /\ cards[j].color = Arr(<<"Blue", "Black">>) /\ Shown(cards[j])
       /\ cards[k].color = Arr(<<"Green">>) /\ ~Shown(cards[k])

\* C3: the result is the snapshot restricted to the cards that pass every
\* active criterion, in the order of the snapshot; with no active criterion
\* and no active set it is the whole snapshot.
C3_Conjunction ==
  /\ LET Passes(card) == PassesAll(card)
     IN  filteredCards = FilterSeq(Passes, cards)
  /\ (filters = NoFilters /\ ~ActiveSet) => filteredCards = cards

\* Every criterion is active on the whole deck: only the card that passes
\* all of them and the one matched through its comment are left.
C3_Witness ==
  /\ cards = WithIds(FilterDeck)
  /\ filters = [colors |-> {"Red"}, rarities |-> {"Rare"}, types |-> {"Creature"},
                isBomb |-> TRUE, customAttributeIds |-> {"x"}, searchTerm |-> <<"B">>]
  /\ currentSetId = "s1"
  /\ filteredCards = <<cards[1], cards[9]>>

\* C4: with filters.colors non-empty, no card whose color is the empty list
\* or absent is in the result.
C4_NoColorNeverMatches ==
  filters.colors # {} =>
    \A i \in DOMAIN filteredCards :
      /\ filteredCards[i].color.t # "undefined"
      /\ filteredCards[i].color # Arr(<<>>)

\* Multicolor is requested and the snapshot has a card without color field
\* and a card whose color is [].
C4_Witness ==
  /\ "Multicolor" \in filters.colors
  /\ filters.customAttributeIds = {}
  /\ \E i, j \in DOMAIN cards :
       /\ cards[i].color = NoArr /\ ~Shown(cards[i])
       /\ cards[j].color = Arr(<<>>) /\ ~Shown(cards[j])
  /\ filteredCards # <<>>

\* C5: with filters.customAttributeIds non-empty, a card that passes the
\* other criteria is in the result iff every requested id is in its
\* customAttributeIds; a card without the field is rejected.
C5_AllAttributes ==
  filters.customAttributeIds # {} =>
    /\ \A i \in DOMAIN cards :
         Shown(cards[i]) <=>
           /\ PassesAttributes(cards[i], filters.customAttributeIds)
           /\ matches(cards[i], [filters EXCEPT !.customAttributeIds = {}], currentSetId)
    /\ \A i \in DOMAIN filteredCards : filteredCards[i].customAttributeIds.t = "array"

\* x and y are requested: the cards with both are shown, the cards with x
\* only, with y only and without the field are not.
C5_Witness ==
  /\ filters = [NoFilters EXCEPT !.customAttributeIds = {"x", "y"}]
  /\ \E i, j, k, l \in DOMAIN cards :
       /\ cards[i].customAttributeIds = Arr(<<"y", "z", "x">>) /\ Shown(cards[i])
       /\ cards[j].customAttributeIds = Arr(<<"x">>) /\ ~Shown(cards[j])
       /\ cards[k].customAttributeIds = Arr(<<"y">>) /\ ~Shown(cards[k])
       /\ cards[l].customAttributeIds = NoArr /\ ~Shown(cards[l])

\* ------------------------------------------------------------------------
\* Inputs and specification for getTieredCards
\* ------------------------------------------------------------------------
\* Ratings in tenths: unset, below 0, inside [0, 5] and above 5.
TierRatings ==
  {Undefined, Null, Num(-5), Num(0), Num(30), Num(37), Num(52), Num(60)}

TierDeck ==
  << [BaseSortCard EXCEPT !.rating = Num(37)],
     [BaseSortCard EXCEPT !.rating = Num(52)],
     [BaseSortCard EXCEPT !.rating = Undefined],
     [BaseSortCard EXCEPT !.rating = Num(60)],
     [BaseSortCard EXCEPT !.rating = Num(30)],
     [BaseSortCard EXCEPT !.rating = Num(-5)],
     [BaseSortCard EXCEPT !.rating = Num(0)],
     [BaseSortCard EXCEPT !.rating = Null] >>

TierCards == {[BaseSortCard EXCEPT !.rating = r] : r \in TierRatings}

TierInputs == {TierDeck} \cup Lists(TierCards, MaxTierCards)

InitTier == InitWith({1}, {WithIds(docs) : docs \in TierInputs})

NextTier ==
  \/ \E mode \in {"grid", "tier"} : SetDisplayMode(mode)
  \/ \E key \in SortKeys : SetSortBy(key)

SpecTier == InitTier /\ [][NextTier]_vars

\* ------------------------------------------------------------------------
\* Claims on getTieredCards and the tier view
\* ------------------------------------------------------------------------
\* The rating of a card in tenths, 0 when it is unset
RatingOrZero(card) == IF IsNum(card.rating) THEN card.rating.n ELSE 0

\* The label floor(rating), when it is one of '0'..'5', and '0' otherwise
TierLabel(card) ==
  LET floor == RatingOrZero(card) \div 10
  IN  IF floor \in 0..5 THEN TierKeys[floor + 1] ELSE "0"

InBucket(card, key) == card \in Elems(tieredCards[key])

HasRating(card, tenths) == card.rating = Num(tenths)

\* C9 (as claimed): every card is in the bucket labelled floor(rating, or 0
\* when unset) when the label is one of '0'..'5' and in bucket '0' otherwise;
\* rating 3.7 is in tier '3' and rating 5.2 is in tier '0', not in '5'.
C9_TierOfRating_Claimed ==
  \A i \in Positions :
    LET card == filteredAndSortedCards[i]
    IN  /\ InBucket(card, TierLabel(card))
        /\ HasRating(card, 37) => InBucket(card, "3")
        /\ HasRating(card, 52) => InBucket(card, "0") /\ ~InBucket(card, "5")

\* C9 (amended): every card is in the bucket labelled floor(rating, or 0
\* when unset) when the label is one of '0'..'5' and in bucket '0' otherwise,
\* and in no other bucket; rating 3.7 is in tier '3', rating 5.2 is in tier
\* '5', rating 6.0 and rating -0.5 are in tier '0'.
C9_TierOfRating ==
  \A i \in Positions :
    LET card == filteredAndSortedCards[i]
    IN  /\ \A key \in DOMAIN tieredCards : InBucket(card, key) <=> key = TierLabel(card)
        /\ HasRating(card, 37) => InBucket(card, "3")
        /\ HasRating(card, 52) => InBucket(card, "5")
        /\ HasRating(card, 60) => InBucket(card, "0")
        /\ HasRating(card, -5) => InBucket(card, "0")

\* The deck is grouped: 5.2 in tier '5', 3.7 and 3.0 in tier '3', and 6.0,
\* -0.5 and the unset ratings in tier '0'.
C9_Witness ==
  /\ cards = WithIds(TierDeck)
  /\ Elems(tieredCards["5"]) = {cards[2]}
  /\ Elems(tieredCards["3"]) = {cards[1], cards[5]}
  /\ Elems(tieredCards["0"]) = {cards[3], cards[4], cards[6], cards[7], cards[8]}

LabelValue(key) == CHOOSE k \in 0..5 : TierKeys[k + 1] = key

\* C10: the mapping has exactly the keys '0'..'5'; in tier mode the view
\* renders the buckets that have at least one card, each once, in
\* descending order of label.
C10_SixKeysRenderedDescending ==
  /\ DOMAIN tieredCards = {"0", "1", "2", "3", "4", "5"}
  /\ displayMode = "tier" =>
       /\ Elems(renderedTiers) = {key \in DOMAIN tieredCards : tieredCards[key] # <<>>}
       /\ \A i, j \in DOMAIN renderedTiers :
            i < j => LabelValue(renderedTiers[i]) > LabelValue(renderedTiers[j])

\* The tier view of the deck shows tiers 5, 3 and 0, in this order; the
\* buckets '4', '2' and '1' are in the mapping and empty.
C10_Witness ==
  /\ displayMode = "tier"
  /\ cards = WithIds(TierDeck)
  /\ renderedTiers = <<"5", "3", "0">>
  /\ tieredCards["4"] = <<>> /\ tieredCards["2"] = <<>> /\ tieredCards["1"] = <<>>

\* The empty snapshot: six empty buckets, nothing rendered in tier mode.
C10_WitnessEmpty ==
  /\ displayMode = "tier"
  /\ cards = <<>>
  /\ renderedTiers = <<>>

\* C11: within every bucket the cards are in ascending order of rating, an
\* unset rating counted as 0, whatever the value of sortBy.
C11_TierAscendingByRating ==
  \A key \in DOMAIN tieredCards :
    \A i, j \in DOMAIN tieredCards[key] :
      i < j => RatingOrZero(tieredCards[key][i]) <= RatingOrZero(tieredCards[key][j])

\* Under 'rating-desc' the card rated 3.7 precedes the card rated 3.0 in the
\* sorted list and follows it in tier '3'.
C11_Witness ==
  /\ sortBy = "rating-desc"
  /\ cards = WithIds(TierDeck)
  /\ \E i, j \in Positions :
       /\ i < j
       /\ filteredAndSortedCards[i] = cards[1]
       /\ filteredAndSortedCards[j] = cards[5]
  /\ tieredCards["3"] = <<cards[5], cards[1]>>

\* ------------------------------------------------------------------------
\* The card repository: writes of the card handlers and snapshot delivery
\* ------------------------------------------------------------------------
\* The value of an <input type="number">: '' or a decimal, held in
\* hundredths (App.js:171-181, 194-202)
EmptyValue == [t |-> "empty", n |-> 0]

Typed(hundredths) == [t |-> "number", n |-> hundredths]

\* parseFloat of the value of the input, in hundredths
parseFloat(value) == IF value.t = "number" THEN Num(value.n) ELSE NaN

\* parseInt of the value of the input: the integer part, truncated toward
\* zero (the -0 of '-0.5' prints as '0' and is held as 0)
parseIntOfValue(value) ==
  IF value.t # "number" THEN NaN
  ELSE IF value.n >= 0 THEN Num(value.n \div 100)
  ELSE Num(-((-value.n) \div 100))

\* parseInt of a number: an integer prints as itself, NaN prints as 'NaN'
parseIntOfNumber(x) == IF IsNum(x) THEN x ELSE NaN

isNaN(x) == ~IsNum(x)

MathMin(x, y) == IF ~IsNum(x) \/ ~IsNum(y) THEN NaN ELSE IF x.n <= y.n THEN x ELSE y

MathMax(x, y) == IF ~IsNum(x) \/ ~IsNum(y) THEN NaN ELSE IF x.n >= y.n THEN x ELSE y

\* Math.round(x * 10) / 10 of x in hundredths, the result in tenths
RoundToTenths(x) == IF IsNum(x) THEN Num((x.n + 5) \div 10) ELSE NaN

\* { ...data, ...fields }
Merge(data, fields) ==
  [k \in DOMAIN data \cup DOMAIN fields |->
     IF k \in DOMAIN fields THEN fields[k] ELSE data[k]]

\* snapshot.docs.map(doc => ({ id: doc.id, ...doc.data() })), in the order
\* of the document ids (App.js:332)
RECURSIVE fetchedCards(_)
fetchedCards(docs) ==
  IF DOMAIN docs = {} THEN <<>>
  ELSE LET first == CHOOSE id \in DOMAIN docs : \A other \in DOMAIN docs : id <= other
       IN  <<docs[first]>> \o fetchedCards([id \in DOMAIN docs \ {first} |-> docs[id]])

\* CardEditModal and the assignment modals are defined inside App (App.js:898,
\* 1257, 1370): a rendering of App mounts them again, the edit form with
\* the card it was opened on (App.js:899) and the assignment modal with an
\* empty selection (App.js:1259-1260)
Remount ==
  /\ editedCard' = editingCard
  /\ bulkModal' = [bulkModal EXCEPT !.selectedCards = {}, !.selected = ""]

\* The listener of the cards collection (App.js:331-334): setCards and the
\* rendering that follows
onSnapshotCards ==
  /\ cards # fetchedCards(cardDocs)
  /\ cards' = fetchedCards(cardDocs)
  /\ Remount
  /\ UNCHANGED <<revision, filters, currentSetId, sortBy, displayMode,
                 stores, history, tasks, world, cardTasks, editingCard>>
  /\ Render(revision, cards', filters, currentSetId, sortBy, displayMode)

UnchangedView ==
  UNCHANGED <<revision, cards, filters, currentSetId, sortBy, displayMode,
              filteredCards, filteredAndSortedCards, tieredCards, renderedTiers>>

\* handleUpdateCard (App.js:432-440): updateDoc writes the fields given and
\* updatedAt; it rejects when the document does not exist, and the
\* rejection is logged
handleUpdateCard(cardId, updatedFields) ==
  /\ lastUpdate' = [op |-> "updateDoc", id |-> cardId, fields |-> updatedFields]
  /\ IF cardId \in DOMAIN cardDocs
     THEN /\ cardDocs' = [cardDocs EXCEPT ![cardId] =
                                  Merge(@, Merge(updatedFields, [updatedAt |-> now]))]
          /\ console' = console
     ELSE /\ console' = console \cup {"Error updating card:"}
          /\ cardDocs' = cardDocs
  /\ UNCHANGED <<setDocs, customAttributeDocs, storage>>
  /\ UnchangedView
  /\ UNCHANGED <<world, cardTasks>>

\* handleRatingChange (App.js:485-489), newRating in hundredths
handleRatingChange(cardId, newRating) ==
  LET clampedRating == MathMax(Num(0), MathMin(Num(500), newRating))
      roundedRating == RoundToTenths(clampedRating)
  IN  /\ lastCall' = [handler |-> "handleRatingChange", cardId |-> cardId,
                      arg |-> newRating, at |-> now]
      /\ handleUpdateCard(cardId, [rating |-> roundedRating])
      /\ UNCHANGED <<forms, tasks>>

\* handleManaCostChange that keeps a negative cost.
handleManaCostChangeSigned(cardId, newManaCost) ==
  LET parsedCost == parseIntOfNumber(newManaCost)
  IN  /\ lastCall' = [handler |-> "handleManaCostChange", cardId |-> cardId, arg |-> newManaCost]
      /\ handleUpdateCard(cardId, [manaCost |-> IF isNaN(parsedCost) THEN Null ELSE parsedCost])
      /\ UNCHANGED <<forms, tasks>>

\* handleManaCostChange (App.js:492-496)
handleManaCostChange(cardId, newManaCost) ==
  LET parsedCost == parseIntOfNumber(newManaCost)
      validatedCost == IF isNaN(parsedCost) \/ parsedCost.n < 0 THEN Null ELSE parsedCost
  IN  /\ lastCall' = [handler |-> "handleManaCostChange", cardId |-> cardId, arg |-> newManaCost]
      /\ handleUpdateCard(cardId, [manaCost |-> validatedCost])
      /\ UNCHANGED <<forms, tasks>>

\* The cards a CardItem is rendered for (App.js:1755-1768, 1782-1793); while
\* loading is set App renders the spinner only (App.js:1483-1489)
Rendered == IF loading THEN {} ELSE Elems(filteredAndSortedCards)

\* The rating input of a CardItem (App.js:171-181)
ChangeRating(card, value) ==
  /\ card \in Rendered
  /\ handleRatingChange(card.id, parseFloat(value))

\* The cost input of a CardItem (App.js:194-202)
ChangeManaCost(card, value) ==
  /\ card \in Rendered
  /\ handleManaCostChange(card.id, parseIntOfValue(value))

\* What is typed in the rating input: nothing, -1 and 5.2
RatingValues == {EmptyValue, Typed(-100), Typed(520)}

\* What is typed in the cost input: nothing, -2, -0.5, 2.7 and 12
ManaCostValues == {EmptyValue, Typed(-200), Typed(-50), Typed(270), Typed(1200)}

\* The snapshot after the upload of MaxCards files into set s1
UploadedCards ==
  WithIds([i \in 1..MaxCards |-> newCard(<<"A">>, <<"Red">>, "s1")])

InitInputs == InitWith({1}, {UploadedCards})

NextInputs ==
  \/ \E card \in Rendered, value \in RatingValues : ChangeRating(card, value)
  \/ \E card \in Rendered, value \in ManaCostValues : ChangeManaCost(card, value)
  \/ onSnapshotCards

SpecInputs == InitInputs /\ [][NextInputs]_vars

\* ------------------------------------------------------------------------
\* Claims on handleRatingChange and handleManaCostChange
\* ------------------------------------------------------------------------
RatingCalled == lastCall.handler = "handleRatingChange"

ManaCostCalled == lastCall.handler = "handleManaCostChange"

\* A rating of [0, 5]; a rating held in tenths has at most one decimal place
ValidRating(x) == IsNum(x) /\ x.n \in 0..50

\* C12: whatever value handleRatingChange is called with, a value below 0,
\* above 5 or the NaN of an empty input field included, the rating it
\* writes is a number in [0, 5] with at most one decimal place.
C12_RatingWrittenInRange ==
  RatingCalled => ValidRating(lastUpdate.fields.rating)

\* C13: handleManaCostChange writes null when its argument is not a number
\* or is negative, and the argument itself, a non-negative integer,
\* otherwise; nothing is logged and what it writes is never negative or
\* non-numeric.
C13_ManaCostCoerced ==
  ManaCostCalled =>
    LET arg == lastCall.arg
        written == lastUpdate.fields.manaCost
    IN  /\ lastUpdate.id = lastCall.cardId
        /\ DOMAIN lastUpdate.fields = {"manaCost"}
        /\ (~IsNum(arg) \/ arg.n < 0) => written = Null
        /\ (IsNum(arg) /\ arg.n >= 0) => written = arg
        /\ written = Null \/ (IsNum(written) /\ written.n >= 0)
        /\ console = {}

\* A cost of -2 was typed after a cost of 12: the document holds null.
C13_Witness ==
  /\ ManaCostCalled
  /\ lastCall.arg = Num(-2)
  /\ lastUpdate.fields.manaCost = Null
  /\ cardDocs[1].manaCost = Null
  /\ cards[1].manaCost = Num(12)

\* ------------------------------------------------------------------------
\* The bomb toggle and the edit form
\* ------------------------------------------------------------------------
\* The isBomb flag the repository holds for a card
storedBomb(cardId) == IF cardId \in DOMAIN cardDocs THEN cardDocs[cardId].isBomb ELSE FALSE

\* handleToggleBomb (App.js:477-482): the flag is read from the cards of
\* the latest snapshot; lastCall keeps the flag stored before the call, and
\* the one stored before the call that preceded when it was a toggle too
handleToggleBomb(cardId) ==
  /\ \E i \in DOMAIN cards : cards[i].id = cardId
  /\ LET cardToUpdate == cards[CHOOSE i \in DOMAIN cards : cards[i].id = cardId]
     IN  handleUpdateCard(cardId, [isBomb |-> ~cardToUpdate.isBomb])
  /\ lastCall' = [handler |-> "handleToggleBomb", cardId |-> cardId,
                  before |-> storedBomb(cardId),
                  previous |-> IF lastCall.handler = "handleToggleBomb"
                               THEN [called |-> TRUE, cardId |-> lastCall.cardId,
                                     before |-> lastCall.before]
                               ELSE [called |-> FALSE]]
  /\ UNCHANGED <<forms, tasks>>

\* The bomb button of a CardItem (App.js:182-188)
ToggleBomb(card) ==
  /\ card \in Rendered
  /\ handleToggleBomb(card.id)

\* No card is being edited: editingCard is null (App.js:245)
NoCard == [id |-> 0]

\* A click on the image of a CardItem (App.js:110, 1762): setEditingCard,
\* and the form copies the card (App.js:902-904)
OpenEdit(card) ==
  /\ card \in Rendered
  /\ editingCard = NoCard
  /\ editingCard' = card
  /\ editedCard' = card
  /\ UNCHANGED <<stores, history, tasks, bulkModal>>
  /\ UnchangedView
  /\ UNCHANGED <<world, cardTasks>>

\* parseFloat(value) of handleChange for a value of at most one decimal
\* place, as a rating in tenths
parseFloatTenths(value) == IF value.t = "number" THEN Num(value.n \div 10) ELSE NaN

\* handleChange of the form (App.js:908-922) for the fields rating and
\* manaCost
handleChange(name, value) ==
  /\ editedCard # NoCard
  /\ editedCard' = [editedCard EXCEPT ![name] =
                      IF name = "rating" THEN parseFloatTenths(value)
                      ELSE parseIntOfValue(value)]
  /\ UNCHANGED <<stores, history, tasks, bulkModal, editingCard>>
  /\ UnchangedView
  /\ UNCHANGED <<world, cardTasks>>

\* handleSubmit of the form (App.js:941-944): onSave with the whole edited
\* card, then onClose (App.js:1817)
handleSubmit ==
  /\ editedCard # NoCard
  /\ handleUpdateCard(editedCard.id, editedCard)
  /\ lastCall' = [handler |-> "handleSubmit", cardId |-> editedCard.id]
  /\ editingCard' = NoCard
  /\ editedCard' = NoCard
  /\ UNCHANGED <<bulkModal, tasks>>

\* The close button of the form (App.js:1817)
CloseEdit ==
  /\ editedCard # NoCard
  /\ editingCard' = NoCard
  /\ editedCard' = NoCard
  /\ UNCHANGED <<stores, history, tasks, bulkModal>>
  /\ UnchangedView
  /\ UNCHANGED <<world, cardTasks>>

\* What is typed in the rating field of the form: nothing, 3.0 and 7.5
EditRatingValues == {EmptyValue, Typed(300), Typed(750)}

\* What is typed in the cost field of the form: nothing and 2
EditManaCostValues == {EmptyValue, Typed(200)}

\* ------------------------------------------------------------------------
\* handleUploadCards
\* ------------------------------------------------------------------------
\* The names of the files of a request, without extension
FileNames == <<"A", "B", "a", "b">>

\* The requests: the files, the colours, the set, the double-faced flag and
\* the back-face file ('' when none is chosen)
UploadRequests ==
  [files : {[i \in 1..n |-> FileNames[i]] : n \in 0..MaxFiles},
   colors : {<<>>, <<"Red">>},
   setId : {"", "s1"},
   isDoubleFaced : BOOLEAN,
   backFaceFile : {"", "a"}]

\* uploadRejection without the guard on the colours.
uploadRejectionNoColors(request) ==
  IF request.setId = "" THEN "select a set"
  ELSE IF request.isDoubleFaced /\ Len(request.files) # 1 THEN "one front image only"
  ELSE IF request.isDoubleFaced /\ request.backFaceFile = "" THEN "select a back image"
  ELSE ""

\* The guards of handleUploadCards (App.js:372-388): the message logged by
\* the first that rejects the request, '' when none does
uploadRejection(request) ==
  IF request.setId = "" THEN "select a set"
  ELSE IF request.isDoubleFaced /\ Len(request.files) # 1 THEN "one front image only"
  ELSE IF request.isDoubleFaced /\ request.backFaceFile = "" THEN "select a back image"
  ELSE IF Len(request.colors) = 0 THEN "select a colour"
  ELSE ""

\* The paths of the images in storage (App.js:393, 399)
FrontPath(file) == <<"card_images", file>>

BackPath(file) == <<"card_images", "back_", file>>

\* No image: backFaceImageUrl is null (App.js:397)
NoImage == <<>>

\* The document of a file (App.js:404-420)
uploadedCard(file, request, id) ==
  Merge(newCard(<<file>>, request.colors, request.setId),
        [id |-> id,
         isDoubleFaced |-> request.isDoubleFaced,
         imageUrl |-> FrontPath(file),
         backFaceImageUrl |-> IF request.isDoubleFaced /\ request.backFaceFile # ""
                              THEN BackPath(request.backFaceFile) ELSE NoImage,
         createdAt |-> now,
         updatedAt |-> now])

\* setLoading: App is rendered again
setLoading(flag) ==
  /\ loading' = flag
  /\ Remount

\* handleUploadCards up to its first await (App.js:367-391); with no file
\* the loop is skipped and the call ends at once (App.js:426-428)
handleUploadCards(request) ==
  /\ ~loading
  /\ nextId + Len(request.files) <= MaxFiles + 1
  /\ lastCall' = [handler |-> "handleUploadCards"]
  /\ IF uploadRejection(request) # ""
     THEN /\ console' = console \cup {uploadRejection(request)}
          /\ uploadTask' = [status |-> "rejected", request |-> request, created |-> {}]
          /\ UNCHANGED <<loading, editedCard, bulkModal>>
     ELSE /\ console' = console
          /\ uploadTask' = [status |-> IF Len(request.files) = 0 THEN "done" ELSE "running",
                            request |-> request, remaining |-> request.files,
                            created |-> {}]
          /\ setLoading(Len(request.files) # 0)
  /\ UNCHANGED <<stores, lastUpdate, editingCard, nextId, bulkTask, deleteSetTask,
                 deleteAttributeTask>>
  /\ UnchangedView
  /\ UNCHANGED <<world, cardTasks>>

\* One iteration of the loop (App.js:391-425): the images are stored and the
\* document is added, or one of the awaited calls rejects and the error is
\* logged; after the last file the flag is cleared (App.js:426-427)
UploadFile(outcome) ==
  /\ uploadTask.status = "running"
  /\ LET request == uploadTask.request
         file == Head(uploadTask.remaining)
         card == uploadedCard(file, request, nextId)
         last == Len(uploadTask.remaining) = 1
         stored == {card.imageUrl, card.backFaceImageUrl} \ {NoImage}
     IN  /\ storage' = IF outcome = "storage fails" THEN storage ELSE storage \cup stored
         /\ IF outcome = "added"
            THEN /\ cardDocs' = [id \in DOMAIN cardDocs \cup {nextId} |->
                                   IF id = nextId THEN card ELSE cardDocs[id]]
                 /\ nextId' = nextId + 1
                 /\ console' = console
            ELSE /\ console' = console \cup {"Error uploading card:"}
                 /\ UNCHANGED <<cardDocs, nextId>>
         /\ uploadTask' = [uploadTask EXCEPT
                             !.remaining = Tail(@),
                             !.created = IF outcome = "added" THEN @ \cup {nextId} ELSE @,
                             !.status = IF last THEN "done" ELSE "running"]
         /\ IF last THEN setLoading(FALSE) ELSE UNCHANGED <<loading, editedCard, bulkModal>>
  /\ UNCHANGED <<setDocs, customAttributeDocs, lastCall, lastUpdate, editingCard,
                 bulkTask, deleteSetTask, deleteAttributeTask>>
  /\ UnchangedView
  /\ UNCHANGED <<world, cardTasks>>

UploadOutcomes == {"added", "storage fails", "addDoc fails"}

InitUpload == InitWith({1}, {<<>>})

NextUpload ==
  \/ \E request \in UploadRequests : handleUploadCards(request)
  \/ \E outcome \in UploadOutcomes : UploadFile(outcome)
  \/ onSnapshotCards

SpecUpload == InitUpload /\ [][NextUpload]_vars

\* ------------------------------------------------------------------------
\* Claim on handleUploadCards
\* ------------------------------------------------------------------------
\* A request the claim calls invalid
InvalidRequest(request) ==
  \/ request.colors = <<>>
  \/ request.setId = ""
  \/ request.isDoubleFaced /\ (Len(request.files) # 1 \/ request.backFaceFile = "")

\* C15: every card document created by handleUploadCards has a non-empty
\* colour list and a non-empty setId, those of its request; a request with
\* no colour or no set, or a double-faced request with other than one file
\* or no back-face file, is rejected and creates no document.
C15_UploadCreatesValidCards ==
  /\ \A id \in DOMAIN cardDocs :
       /\ cardDocs[id].color.t = "array"
       /\ Len(cardDocs[id].color.v) > 0
       /\ cardDocs[id].setId # ""
  /\ uploadTask.status # "idle" =>
       /\ InvalidRequest(uploadTask.request) <=> uploadTask.status = "rejected"
       /\ uploadTask.status = "rejected" => uploadTask.created = {} /\ ~loading
       /\ \A id \in uploadTask.created :
            /\ id \in DOMAIN cardDocs
            /\ cardDocs[id].color = Arr(uploadTask.request.colors)
            /\ cardDocs[id].setId = uploadTask.request.setId

\* A request with no colour is rejected after an upload of two files: the
\* repository holds the two documents of the upload.
C15_Witness ==
  /\ uploadTask.status = "rejected"
  /\ uploadTask.request.colors = <<>>
  /\ uploadTask.request.setId = "s1"
  /\ DOMAIN cardDocs = {1, 2}
  /\ cardDocs[1].color = Arr(<<"Red">>)

\* ------------------------------------------------------------------------
\* RarityAssignmentModal and TypeAssignmentModal
\* ------------------------------------------------------------------------
\* The modals differ by the field they assign: 'rarity' (App.js:1257-1368)
\* or 'type' (App.js:1370-1480)
BulkFields == {"rarity", "type"}

\* The button that opens a modal (App.js:1538, 1544): a state of App, which
\* is rendered again
OpenBulk(field) ==
  /\ ~loading
  /\ bulkModal.open = "none"
  /\ bulkModal' = [open |-> field, selectedCards |-> {}, selected |-> ""]
  /\ editedCard' = editingCard
  /\ UNCHANGED <<stores, history, tasks, editingCard>>
  /\ UnchangedView
  /\ UNCHANGED <<world, cardTasks>>

\* unassignedCards (App.js:1258, 1371), the ids of the cards of the latest
\* snapshot whose field is '' or absent
unassignedCards(field) ==
  {cards[i].id : i \in {j \in DOMAIN cards : cards[j][field] = ""}}

SetBulkModal(modal) ==
  /\ ~loading
  /\ bulkModal.open # "none"
  /\ bulkModal' = modal
  /\ UNCHANGED <<stores, history, tasks, editingCard, editedCard>>
  /\ UnchangedView
  /\ UNCHANGED <<world, cardTasks>>

\* handleCardSelect (App.js:1267-1271)
handleCardSelect(cardId) ==
  /\ bulkModal.open # "none"
  /\ cardId \in unassignedCards(bulkModal.open)
  /\ SetBulkModal([bulkModal EXCEPT !.selectedCards = Toggle(@, cardId)])

\* handleSelectAll (App.js:1273-1279)
handleSelectAll ==
  LET all == IF bulkModal.open = "none" THEN {} ELSE unassignedCards(bulkModal.open)
  IN  SetBulkModal([bulkModal EXCEPT !.selectedCards =
                      IF Cardinality(@) = Cardinality(all) THEN {} ELSE all])

\* The selector of the value to assign (App.js:1308-1317)
SetSelected(value) ==
  SetBulkModal([bulkModal EXCEPT !.selected = value])

\* handleApply with a write for every unassigned card.
handleApplyUnassigned ==
  /\ ~loading
  /\ bulkModal.open # "none"
  /\ bulkModal.selectedCards # {} /\ bulkModal.selected # ""
  /\ IF bulkTask.status = "idle" THEN TRUE ELSE bulkTask.pending = {}
  /\ bulkTask' = [status |-> "running", field |-> bulkModal.open,
                  value |-> bulkModal.selected,
                  selectedCards |-> bulkModal.selectedCards,
                  pending |-> unassignedCards(bulkModal.open),
                  fulfilled |-> {}, rejected |-> {}, at |-> now,
                  before |-> [cards |-> cardDocs, sets |-> setDocs,
                              customAttributes |-> customAttributeDocs]]
  /\ lastCall' = [handler |-> "handleApply"]
  /\ setLoading(TRUE)
  /\ UNCHANGED <<stores, lastUpdate, console, editingCard, nextId, uploadTask,
                 deleteSetTask, deleteAttributeTask>>
  /\ UnchangedView
  /\ UNCHANGED <<world, cardTasks>>

\* handleApplyRarity and handleApplyType up to the await (App.js:1281-1293,
\* 1394-1406): one updateDoc per selected card is issued. The button is
\* disabled without a selection (App.js:1358). before is the repository
\* when the writes are issued.
handleApply ==
  /\ ~loading
  /\ bulkModal.open # "none"
  /\ bulkModal.selectedCards # {} /\ bulkModal.selected # ""
  /\ IF bulkTask.status = "idle" THEN TRUE ELSE bulkTask.pending = {}
  /\ bulkTask' = [status |-> "running", field |-> bulkModal.open,
                  value |-> bulkModal.selected,
                  selectedCards |-> bulkModal.selectedCards,
                  pending |-> bulkModal.selectedCards,
                  fulfilled |-> {}, rejected |-> {}, at |-> now,
                  before |-> [cards |-> cardDocs, sets |-> setDocs,
                              customAttributes |-> customAttributeDocs]]
  /\ lastCall' = [handler |-> "handleApply"]
  /\ setLoading(TRUE)
  /\ UNCHANGED <<stores, lastUpdate, console, editingCard, nextId, uploadTask,
                 deleteSetTask, deleteAttributeTask>>
  /\ UnchangedView
  /\ UNCHANGED <<world, cardTasks>>

\* What follows await Promise.all(updates) (App.js:1293-1299) once the write
\* of cardId has settled with the sets of fulfilled and rejected writes
\* given: Promise.all rejects with the first rejection and is fulfilled when
\* every write is fulfilled.
afterPromiseAll(task) ==
  IF task.status # "running" THEN
    /\ UNCHANGED <<console, loading, bulkModal, editedCard>>
    /\ bulkTask' = task
  ELSE IF task.rejected # {} THEN
    /\ console' = console \cup {"Error updating " \o task.field}
    /\ bulkTask' = [task EXCEPT !.status = "failed"]
    /\ setLoading(FALSE)
  ELSE IF task.pending = {} THEN
    /\ console' = console
    /\ bulkTask' = [task EXCEPT !.status = "done"]
    /\ loading' = FALSE
    /\ editedCard' = editingCard
    /\ bulkModal' = [open |-> "none", selectedCards |-> {}, selected |-> ""]
  ELSE
    /\ UNCHANGED <<console, loading, bulkModal, editedCard>>
    /\ bulkTask' = task

\* One write of the bulk assignment settles: it is applied, with the
\* updatedAt of the call (App.js:1289, 1402), or it is rejected (always when
\* the document is gone)
SettleBulkWrite(cardId, fulfilled) ==
  /\ bulkTask.status # "idle"
  /\ cardId \in bulkTask.pending
  /\ fulfilled => cardId \in DOMAIN cardDocs
  /\ cardDocs' = IF fulfilled
                 THEN [cardDocs EXCEPT ![cardId][bulkTask.field] = bulkTask.value,
                                       ![cardId].updatedAt = bulkTask.at]
                 ELSE cardDocs
  /\ afterPromiseAll([bulkTask EXCEPT
                        !.pending = @ \ {cardId},
                        !.fulfilled = IF fulfilled THEN @ \cup {cardId} ELSE @,
                        !.rejected = IF fulfilled THEN @ ELSE @ \cup {cardId}])
  /\ UNCHANGED <<setDocs, customAttributeDocs, storage, lastCall, lastUpdate,
                 editingCard, nextId, uploadTask, deleteSetTask, deleteAttributeTask>>
  /\ UnchangedView
  /\ UNCHANGED <<world, cardTasks>>

BulkValue(field) == IF field = "rarity" THEN "Rare" ELSE "Creature"

\* The snapshot after the upload of MaxBulkCards files: no rarity, no type
BulkDeck ==
  WithIds([i \in 1..MaxBulkCards |-> newCard(<<"A">>, <<"Red">>, "s1")])

InitBulk == InitWith({1}, {BulkDeck})

BulkSteps ==
  \/ \E cardId \in 1..MaxBulkCards : handleCardSelect(cardId)
  \/ handleSelectAll
  \/ SetSelected(BulkValue(bulkModal.open))
  \/ handleApply
  \/ \E cardId \in 1..MaxBulkCards, fulfilled \in BOOLEAN :
       SettleBulkWrite(cardId, fulfilled)
  \/ onSnapshotCards

\* The rarity modal alone
NextBulkRarity == OpenBulk("rarity") \/ BulkSteps

SpecBulkRarity == InitBulk /\ [][NextBulkRarity]_vars

NextBulk == (\E field \in BulkFields : OpenBulk(field)) \/ BulkSteps

SpecBulk == InitBulk /\ [][NextBulk]_vars

\* ------------------------------------------------------------------------
\* Claims on the bulk assignment
\* ------------------------------------------------------------------------
BulkReported == bulkTask.status \in {"done", "failed"}

\* C16: when every write of a bulk rarity assignment has succeeded, the
\* selected card documents have the chosen rarity and, updatedAt apart, are
\* otherwise as they were when the writes were issued, and every other
\* card, every set and every custom attribute is as it was.
C16_BulkRarityFrame ==
  (bulkTask.status = "done" /\ bulkTask.field = "rarity") =>
    /\ DOMAIN cardDocs = DOMAIN bulkTask.before.cards
    /\ \A id \in DOMAIN cardDocs :
         cardDocs[id] = IF id \in bulkTask.selectedCards
                        THEN [bulkTask.before.cards[id] EXCEPT
                                !.rarity = bulkTask.value,
                                !.updatedAt = cardDocs[id].updatedAt]
                        ELSE bulkTask.before.cards[id]
    /\ setDocs = bulkTask.before.sets
    /\ customAttributeDocs = bulkTask.before.customAttributes

\* The rarity was assigned to card 2 only: card 1 is still unassigned.
C16_Witness ==
  /\ bulkTask.status = "done"
  /\ bulkTask.field = "rarity"
  /\ bulkTask.selectedCards = {2}
  /\ bulkTask.before.cards[2].rarity = ""
  /\ cardDocs[2].rarity = "Rare"
  /\ cardDocs[1].rarity = ""

\* C17: a bulk assignment issues one write per selected card; completion or
\* failure is reported (the modal closed or the error logged, the loading
\* flag cleared) only when every issued write has settled; when some
\* writes fail the fulfilled ones stay applied and one error is logged.
C17_BulkReportsAfterAllSettled ==
  bulkTask.status # "idle" =>
    /\ bulkTask.pending \cup bulkTask.fulfilled \cup bulkTask.rejected = bulkTask.selectedCards
    /\ BulkReported => bulkTask.pending = {}
    /\ ~BulkReported => loading /\ bulkTask.rejected = {}
    /\ bulkTask.status = "done" => bulkTask.fulfilled = bulkTask.selectedCards
    /\ bulkTask.status = "failed" =>
         /\ ("Error updating " \o bulkTask.field) \in console
         /\ \A id \in bulkTask.fulfilled : cardDocs[id][bulkTask.field] = bulkTask.value

\* ------------------------------------------------------------------------
\* handleDeleteSet
\* ------------------------------------------------------------------------
\* handleDeleteSet up to the await of getDocs (App.js:559-567), for a set
\* listed in the set management modal; sets is the list the call closes
\* over (App.js:603), before the repository when the call is made
handleDeleteSet(setId) ==
  /\ ~loading
  /\ setId \in setDocs
  /\ IF deleteSetTask.status = "idle" THEN TRUE
     ELSE deleteSetTask.status \in {"done", "failed"} /\ deleteSetTask.pending = {}
  /\ deleteSetTask' = [status |-> "querying", setId |-> setId, sets |-> setDocs,
                       currentSetId |-> currentSetId,
                       queried |-> {}, snapshot |-> <<>>, pending |-> {}, rejected |-> {},
                       imageFailures |-> {}, setRejected |-> FALSE,
                       before |-> [cards |-> cardDocs, customAttributes |-> customAttributeDocs]]
  /\ lastCall' = [handler |-> "handleDeleteSet"]
  /\ setLoading(TRUE)
  /\ UNCHANGED <<stores, lastUpdate, console, editingCard, nextId, uploadTask,
                 bulkTask, deleteAttributeTask>>
  /\ UnchangedView
  /\ UNCHANGED <<world, cardTasks>>

\* getDocs resolves with the cards of the set (App.js:566-568): the deletion
\* of each of them starts; rejected holds the cards whose deleteDoc was
\* rejected, setRejected tells that the deleteDoc of the set was
QuerySetCards ==
  /\ deleteSetTask.status = "querying"
  /\ LET found == {id \in DOMAIN cardDocs : cardDocs[id].setId = deleteSetTask.setId}
     IN  deleteSetTask' = [deleteSetTask EXCEPT
                             !.status = IF found = {} THEN "deleting set" ELSE "deleting cards",
                             !.queried = found, !.pending = found,
                             !.snapshot = [id \in found |-> cardDocs[id]]]
  /\ UNCHANGED <<stores, history, forms, loading, nextId, uploadTask, bulkTask,
                 deleteAttributeTask>>
  /\ UnchangedView
  /\ UNCHANGED <<world, cardTasks>>

\* The images of a card that deleteObject is called on (App.js:570, 583)
imagesOf(cardData) ==
  [front |-> cardData.imageUrl, back |-> cardData.backFaceImageUrl]

\* The deletion of one card of the set (App.js:568-597) that gives up on the
\* card when an image cannot be deleted.
deleteCardOfSetStrict(cardId, frontOk, backOk, docOk) ==
  LET images == imagesOf(deleteSetTask.snapshot[cardId])
      failed == {side \in {"front", "back"} :
                   /\ images[side] # NoImage
                   /\ ~(IF side = "front" THEN frontOk ELSE backOk)}
  IN  [deleted |-> {images[side] : side \in {"front", "back"} \ failed},
       warnings |-> {<<cardId, side>> : side \in failed},
       docCalled |-> failed = {},
       docDeleted |-> docOk /\ failed = {}]

\* The deletion of one card of the set (App.js:568-597): a failure to delete
\* an image is caught and logged, and deleteDoc is called all the same
deleteCardOfSet(cardId, frontOk, backOk, docOk) ==
  LET images == imagesOf(deleteSetTask.snapshot[cardId])
      failed == {side \in {"front", "back"} :
                   /\ images[side] # NoImage
                   /\ ~(IF side = "front" THEN frontOk ELSE backOk)}
  IN  [deleted |-> {images[side] : side \in {"front", "back"} \ failed},
       warnings |-> {<<cardId, side>> : side \in failed},
       docCalled |-> TRUE,
       docDeleted |-> docOk]

\* The ids of the sets, in the order of the sets snapshot
SetIds == <<"s1", "s2", "s3">>

\* sets.length > 1 ? sets.find(s => s.id !== setId)?.id : null (App.js:603)
otherSetOf(sets, setId) ==
  LET others == {i \in DOMAIN SetIds : SetIds[i] \in sets \ {setId}}
  IN  IF Cardinality(sets) > 1 /\ others # {}
      THEN SetIds[CHOOSE i \in others : \A j \in others : i <= j]
      ELSE "null"

\* Promise.allSettled in the place of Promise.all: no rejection of a
\* deletion is passed on.
promiseAllSettledRejects(status, docDeleted) == FALSE

\* Promise.all (App.js:598) rejects, and the call goes to its catch clause,
\* at the first deletion of a card that is rejected
promiseAllRejects(status, docDeleted) == status = "deleting cards" /\ ~docDeleted

\* The deletion of one card of the set settles (App.js:568-598); the first
\* rejected deleteDoc rejects Promise.all, and the fulfilment of the last
\* one lets the call go on to the set document
DeleteSetCard(cardId, frontOk, backOk, docOk) ==
  /\ deleteSetTask.status \in {"deleting cards", "failed"}
  /\ cardId \in deleteSetTask.pending
  /\ LET result == deleteCardOfSet(cardId, frontOk, backOk, docOk)
         task == [deleteSetTask EXCEPT
                    !.pending = @ \ {cardId},
                    !.rejected = IF result.docCalled /\ ~result.docDeleted
                                 THEN @ \cup {cardId} ELSE @,
                    !.imageFailures = @ \cup result.warnings]
         rejects == promiseAllRejects(deleteSetTask.status, result.docDeleted)
     IN  /\ storage' = storage \ result.deleted
         /\ cardDocs' = IF result.docDeleted
                        THEN [id \in DOMAIN cardDocs \ {cardId} |-> cardDocs[id]]
                        ELSE cardDocs
         /\ console' = console
                         \cup {"Warning: Could not delete " \o w[2] \o " image" : w \in result.warnings}
                         \cup (IF rejects THEN {"Error deleting set:"} ELSE {})
         /\ IF rejects
            THEN /\ deleteSetTask' = [task EXCEPT !.status = "failed"]
                 /\ setLoading(FALSE)
            ELSE /\ deleteSetTask' =
                      [task EXCEPT !.status =
                         IF @ = "deleting cards" /\ task.pending = {} THEN "deleting set" ELSE @]
                 /\ UNCHANGED <<loading, editedCard, bulkModal>>
  /\ UNCHANGED <<setDocs, customAttributeDocs, lastCall, lastUpdate, editingCard,
                 nextId, uploadTask, bulkTask, deleteAttributeTask>>
  /\ UnchangedView
  /\ UNCHANGED <<world, cardTasks>>

\* deleteDoc of the set document settles (App.js:600-610): the current set
\* is replaced when it was the deleted one
DeleteSetDoc(ok) ==
  /\ deleteSetTask.status = "deleting set"
  /\ LET next == IF ok /\ deleteSetTask.currentSetId = deleteSetTask.setId
                 THEN otherSetOf(deleteSetTask.sets, deleteSetTask.setId)
                 ELSE currentSetId
     IN  /\ currentSetId' = next
         /\ Render(revision, cards, filters, next, sortBy, displayMode)
  /\ setDocs' = IF ok THEN setDocs \ {deleteSetTask.setId} ELSE setDocs
  /\ console' = IF ok THEN console ELSE console \cup {"Error deleting set:"}
  /\ deleteSetTask' = [deleteSetTask EXCEPT !.status = IF ok THEN "done" ELSE "failed",
                                            !.setRejected = ~ok]
  /\ setLoading(FALSE)
  /\ UNCHANGED <<revision, cards, filters, sortBy, displayMode, cardDocs,
                 customAttributeDocs, storage, lastCall, lastUpdate, editingCard,
                 nextId, uploadTask, bulkTask, deleteAttributeTask, world, cardTasks>>

\* The addDoc of an upload (App.js:404-421) that runs in another session of
\* the same user, accepted while the set existed
OtherSessionAddDoc(file, setId) ==
  /\ setId \in setDocs
  /\ nextId <= MaxSetCards + 2
  /\ LET request == [files |-> <<file>>, colors |-> <<"Red">>, setId |-> setId,
                     isDoubleFaced |-> FALSE, backFaceFile |-> ""]
         card == uploadedCard(file, request, nextId)
     IN  /\ cardDocs' = [id \in DOMAIN cardDocs \cup {nextId} |->
                           IF id = nextId THEN card ELSE cardDocs[id]]
         /\ storage' = storage \cup {card.imageUrl}
  /\ nextId' = nextId + 1
  /\ UNCHANGED <<setDocs, customAttributeDocs, history, forms, loading, uploadTask,
                 bulkTask, deleteSetTask, deleteAttributeTask>>
  /\ UnchangedView
  /\ UNCHANGED <<world, cardTasks>>

\* MaxSetCards cards of set s1, the first double-faced, and one card of s2
SetDeck ==
  [i \in 1..(MaxSetCards + 1) |->
     uploadedCard(FileNames[IF i = 1 THEN 1 ELSE 2],
                  [files |-> <<>>, colors |-> <<"Red">>,
                   setId |-> IF i <= MaxSetCards THEN "s1" ELSE "s2",
                   isDoubleFaced |-> i = 1, backFaceFile |-> "a"],
                  i)]

InitDeleteSet == InitWith({1}, {SetDeck})

NextDeleteSet ==
  \/ handleDeleteSet("s1")
  \/ QuerySetCards
  \/ \E cardId \in 1..(MaxSetCards + 2), frontOk, backOk, docOk \in BOOLEAN :
       DeleteSetCard(cardId, frontOk, backOk, docOk)
  \/ \E ok \in BOOLEAN : DeleteSetDoc(ok)
  \/ OtherSessionAddDoc("b", "s1")
  \/ onSnapshotCards

SpecDeleteSet == InitDeleteSet /\ [][NextDeleteSet]_vars

\* ------------------------------------------------------------------------
\* Claims on handleDeleteSet
\* ------------------------------------------------------------------------
\* C18: after handleDeleteSet(S) has completed, no card of the repository
\* has setId S and there is no set S, every card of another set is as it
\* was and so are the custom attributes, also when an upload into S is in
\* progress during the deletion.
C18_DeleteSetLeavesNoCard ==
  deleteSetTask.status = "done" =>
    /\ \A id \in DOMAIN cardDocs : cardDocs[id].setId # deleteSetTask.setId
    /\ deleteSetTask.setId \notin setDocs
    /\ \A id \in DOMAIN deleteSetTask.before.cards :
         deleteSetTask.before.cards[id].setId # deleteSetTask.setId =>
           /\ id \in DOMAIN cardDocs
           /\ cardDocs[id] = deleteSetTask.before.cards[id]
    /\ customAttributeDocs = deleteSetTask.before.customAttributes

\* The cards of the set whose deletion has settled
SettledCards == deleteSetTask.queried \ deleteSetTask.pending

\* C19: in the deletion of a set, a failure to delete the front or the back
\* image of a card is logged and prevents neither the deletion of the
\* document of that card, nor that of the other cards, nor that of the set:
\* a card stays only when its own deleteDoc is rejected, and the operation
\* fails only when a deleteDoc is rejected.
C19_ImageFailureIsLogged ==
  deleteSetTask.status \notin {"idle", "querying"} =>
    /\ \A id \in SettledCards \ deleteSetTask.rejected : id \notin DOMAIN cardDocs
    /\ \A w \in deleteSetTask.imageFailures :
         ("Warning: Could not delete " \o w[2] \o " image") \in console
    /\ deleteSetTask.status = "failed" =>
         deleteSetTask.rejected # {} \/ deleteSetTask.setRejected
    /\ deleteSetTask.status = "done" =>
         /\ deleteSetTask.setId \notin setDocs
         /\ deleteSetTask.queried \cap DOMAIN cardDocs = {}

\* Neither image of card 1 could be deleted: the images are still stored,
\* the cards of the set and the set are gone.
C19_Witness ==
  /\ deleteSetTask.status = "done"
  /\ {<<1, "front">>, <<1, "back">>} \subseteq deleteSetTask.imageFailures
  /\ {FrontPath("A"), BackPath("a")} \subseteq storage
  /\ 1 \notin DOMAIN cardDocs /\ 2 \notin DOMAIN cardDocs
  /\ "s1" \notin setDocs

\* ------------------------------------------------------------------------
\* handleToggleCustomAttribute and handleDeleteCustomAttribute
\* ------------------------------------------------------------------------
MaxAttributeCards == 1

\* customAttributeIds.filter(id => id !== attrId) (App.js:517, 534)
withoutAttribute(ids, attrId) ==
  LET Keep(id) == id # attrId
  IN  FilterSeq(Keep, ids)

\* The attribute ids the repository holds for a card
storedAttributes(cardId) ==
  IF cardId \in DOMAIN cardDocs THEN AttributesOf(cardDocs[cardId]) ELSE {}

\* handleToggleCustomAttribute (App.js:527-545): the new list is computed
\* from the card of the cards state and written whole; the rejection of
\* updateDoc, for a document that does not exist, is logged; lastCall keeps
\* the attribute ids stored before the call
handleToggleCustomAttribute(cardId, attributeId) ==
  LET found == {i \in DOMAIN cards : cards[i].id = cardId}
  IN  /\ found # {}
      /\ LET cardToUpdate == cards[CHOOSE i \in found : \A j \in found : i <= j]
             currentAttributes == IF cardToUpdate.customAttributeIds.t = "array"
                                  THEN cardToUpdate.customAttributeIds.v ELSE <<>>
             newAttributes == IF attributeId \in Elems(currentAttributes)
                              THEN withoutAttribute(currentAttributes, attributeId)
                              ELSE Append(currentAttributes, attributeId)
         IN  /\ lastCall' = [handler |-> "handleToggleCustomAttribute",
                             cardId |-> cardId, attributeId |-> attributeId,
                             before |-> storedAttributes(cardId)]
             /\ IF cardId \in DOMAIN cardDocs
                THEN /\ cardDocs' = [cardDocs EXCEPT ![cardId] =
                                        Merge(@, [customAttributeIds |-> Arr(newAttributes),
                                                  updatedAt |-> now])]
                     /\ console' = console
                ELSE /\ console' = console \cup {"Error toggling custom attribute:"}
                     /\ cardDocs' = cardDocs
      /\ UNCHANGED <<setDocs, customAttributeDocs, storage, lastUpdate, forms, tasks>>
      /\ UnchangedView
      /\ UNCHANGED <<world, cardTasks>>

\* An attribute button of a CardItem (App.js:208-214), one for each custom
\* attribute there is
ToggleCustomAttribute(card, attributeId) ==
  /\ card \in Rendered
  /\ attributeId \in customAttributeDocs
  /\ handleToggleCustomAttribute(card.id, attributeId)

\* handleDeleteCustomAttribute up to its first await (App.js:509-516), for
\* an attribute listed in the attribute modal (App.js:1171-1179):
\* cardsToUpdate is taken from the cards state of the call, and the list
\* written to each card is computed from it; overwritten and written hold,
\* for each card the cascade has written, the list the document had and the
\* list it was given
handleDeleteCustomAttribute(attrId) ==
  /\ ~loading
  /\ attrId \in customAttributeDocs
  /\ deleteAttributeTask.status \in {"idle", "done", "failed"}
  /\ LET Has(card) == /\ card.customAttributeIds.t = "array"
                      /\ attrId \in Elems(card.customAttributeIds.v)
         cardsToUpdate == FilterSeq(Has, cards)
     IN  deleteAttributeTask' =
           [status |-> IF cardsToUpdate = <<>> THEN "deleting attribute" ELSE "updating cards",
            attrId |-> attrId, cardsToUpdate |-> cardsToUpdate, next |-> 1,
            overwritten |-> <<>>, written |-> <<>>]
  /\ lastCall' = [handler |-> "handleDeleteCustomAttribute"]
  /\ UNCHANGED <<stores, lastUpdate, console, forms, loading, nextId, uploadTask,
                 bulkTask, deleteSetTask>>
  /\ UnchangedView
  /\ UNCHANGED <<world, cardTasks>>

\* The awaited updateDoc of the next card of cardsToUpdate settles
\* (App.js:515-519); a rejection ends the call in its catch (App.js:521-523)
UpdateAttributeCard(ok) ==
  /\ deleteAttributeTask.status = "updating cards"
  /\ LET task == deleteAttributeTask
         card == task.cardsToUpdate[task.next]
         ids == Arr(withoutAttribute(card.customAttributeIds.v, task.attrId))
         fulfilled == ok /\ card.id \in DOMAIN cardDocs
         last == task.next = Len(task.cardsToUpdate)
     IN  /\ IF fulfilled
            THEN /\ cardDocs' = [cardDocs EXCEPT ![card.id].customAttributeIds = ids]
                 /\ console' = console
                 /\ deleteAttributeTask' =
                      [task EXCEPT
                         !.status = IF last THEN "deleting attribute" ELSE @,
                         !.next = @ + 1,
                         !.overwritten = Append(@, cardDocs[card.id].customAttributeIds),
                         !.written = Append(@, ids)]
            ELSE /\ cardDocs' = cardDocs
                 /\ console' = console \cup {"Error deleting custom attribute:"}
                 /\ deleteAttributeTask' = [task EXCEPT !.status = "failed"]
  /\ UNCHANGED <<setDocs, customAttributeDocs, storage, lastCall, lastUpdate, forms,
                 loading, nextId, uploadTask, bulkTask, deleteSetTask>>
  /\ UnchangedView
  /\ UNCHANGED <<world, cardTasks>>

\* The awaited deleteDoc of the attribute settles (App.js:520-523)
DeleteAttributeDoc(ok) ==
  /\ deleteAttributeTask.status = "deleting attribute"
  /\ customAttributeDocs' = IF ok THEN customAttributeDocs \ {deleteAttributeTask.attrId}
                            ELSE customAttributeDocs
  /\ console' = IF ok THEN console ELSE console \cup {"Error deleting custom attribute:"}
  /\ deleteAttributeTask' = [deleteAttributeTask EXCEPT
                               !.status = IF ok THEN "done" ELSE "failed"]
  /\ UNCHANGED <<cardDocs, setDocs, storage, lastCall, lastUpdate, forms, loading,
                 nextId, uploadTask, bulkTask, deleteSetTask>>
  /\ UnchangedView
  /\ UNCHANGED <<world, cardTasks>>

\* MaxAttributeCards cards of set s1: the first has attributes x and y, the
\* others x
AttributeDeck ==
  WithIds([i \in 1..MaxAttributeCards |->
             [newCard(<<"A">>, <<"Red">>, "s1") EXCEPT
                !.customAttributeIds = Arr(IF i = 1 THEN <<"x", "y">> ELSE <<"x">>)]])

InitDeleteAttribute == InitWith({1}, {AttributeDeck})

NextDeleteAttribute ==
  \/ \E card \in Rendered, attributeId \in {"x", "y"} :
       ToggleCustomAttribute(card, attributeId)
  \/ handleDeleteCustomAttribute("x")
  \/ \E ok \in BOOLEAN : UpdateAttributeCard(ok)
  \/ \E ok \in BOOLEAN : DeleteAttributeDoc(ok)
  \/ onSnapshotCards

SpecDeleteAttribute == InitDeleteAttribute /\ [][NextDeleteAttribute]_vars

\* ------------------------------------------------------------------------
\* Claims on handleDeleteCustomAttribute
\* ------------------------------------------------------------------------
\* C20: when handleDeleteCustomAttribute(X) has completed successfully, no
\* card of the repository has X among its customAttributeIds and the
\* attribute X is gone, whatever toggles of attributes and snapshot
\* deliveries came in between; the cascade changed no other attribute id of
\* a card it wrote.
C20_DeleteAttributeCascade ==
  deleteAttributeTask.status = "done" =>
    /\ \A id \in DOMAIN cardDocs : deleteAttributeTask.attrId \notin AttributesOf(cardDocs[id])
    /\ deleteAttributeTask.attrId \notin customAttributeDocs
    /\ \A k \in DOMAIN deleteAttributeTask.written :
         Elems(deleteAttributeTask.written[k].v) =
           AttributesOf([customAttributeIds |-> deleteAttributeTask.overwritten[k]])
             \ {deleteAttributeTask.attrId}

\* ------------------------------------------------------------------------
\* The edit form next to the commands of a CardItem
\* ------------------------------------------------------------------------
InitEditForm == InitWith({1}, {UploadedCards})

NextEditForm ==
  \/ \E card \in Rendered : OpenEdit(card)
  \/ \E value \in EditRatingValues : handleChange("rating", value)
  \/ \E value \in EditManaCostValues : handleChange("manaCost", value)
  \/ handleSubmit
  \/ CloseEdit
  \/ \E card \in Rendered : ChangeRating(card, Typed(520))
  \/ onSnapshotCards

SpecEditForm == InitEditForm /\ [][NextEditForm]_vars

\* ------------------------------------------------------------------------
\* Claim on the ratings of the repository
\* ------------------------------------------------------------------------
\* C14: in every state of the card repository that the mutation commands
\* can lead to, the save of the edit form among them, the rating of every
\* card is a number in [0, 5] with at most one decimal place.
C14_RatingsInRange ==
  \A id \in DOMAIN cardDocs : ValidRating(cardDocs[id].rating)

\* ------------------------------------------------------------------------
\* Writes of a rating from two sessions
\* ------------------------------------------------------------------------
\* The latest time of the clock
MaxTime == 1

\* The number of writes on their way to the repository
MaxInFlight == 1

\* Time passes
Tick ==
  /\ now < MaxTime
  /\ now' = now + 1
  /\ UNCHANGED <<stores, history, forms, tasks, inFlight, cardTasks>>
  /\ UnchangedView

\* handleRatingChange (App.js:485-489) called in another session of the
\* user for a card of the repository: its updateDoc (App.js:436) is on its
\* way
OtherSessionRatingChange(cardId, newRating) ==
  LET clampedRating == MathMax(Num(0), MathMin(Num(500), newRating))
      roundedRating == RoundToTenths(clampedRating)
      write == [id |-> cardId, fields |-> [rating |-> roundedRating, updatedAt |-> now]]
  IN  /\ cardId \in DOMAIN cardDocs
      /\ write \notin inFlight
      /\ Cardinality(inFlight) < MaxInFlight
      /\ inFlight' = inFlight \cup {write}
      /\ UNCHANGED <<stores, history, forms, tasks, now, cardTasks>>
      /\ UnchangedView

\* updateDoc that applies a write only to a document that is not newer
\* than the write.
WriteReachesNewerOnly(write) ==
  /\ write \in inFlight
  /\ inFlight' = inFlight \ {write}
  /\ lastUpdate' = [op |-> "updateDoc", id |-> write.id,
                    fields |-> [rating |-> write.fields.rating]]
  /\ cardDocs' = IF /\ write.id \in DOMAIN cardDocs
                    /\ cardDocs[write.id].updatedAt <= write.fields.updatedAt
                 THEN [cardDocs EXCEPT ![write.id] = Merge(@, write.fields)]
                 ELSE cardDocs
  /\ UNCHANGED <<setDocs, customAttributeDocs, storage, lastCall, console, forms,
                 tasks, now, cardTasks>>
  /\ UnchangedView

\* A write of another session reaches the repository: updateDoc
\* (App.js:436) replaces the fields it carries, whatever the document
\* holds, and is rejected in that session when the document is gone
WriteReaches(write) ==
  /\ write \in inFlight
  /\ inFlight' = inFlight \ {write}
  /\ lastUpdate' = [op |-> "updateDoc", id |-> write.id,
                    fields |-> [rating |-> write.fields.rating]]
  /\ cardDocs' = IF write.id \in DOMAIN cardDocs
                 THEN [cardDocs EXCEPT ![write.id] = Merge(@, write.fields)]
                 ELSE cardDocs
  /\ UNCHANGED <<setDocs, customAttributeDocs, storage, lastCall, console, forms,
                 tasks, now, cardTasks>>
  /\ UnchangedView

\* What is typed in the rating input of the other session: 3.14 and 4.2
OtherRatingValues == {Typed(314), Typed(420)}

NextRatingWrites ==
  \/ \E card \in Rendered : ChangeRating(card, Typed(520))
  \/ \E cardId \in DOMAIN cardDocs, value \in OtherRatingValues :
       OtherSessionRatingChange(cardId, parseFloat(value))
  \/ \E write \in inFlight : WriteReaches(write)
  \/ Tick
  \/ onSnapshotCards

\* One card of set s1
RatingDeck == WithIds(<<newCard(<<"A">>, <<"Red">>, "s1")>>)

InitRatingWrites == InitWith({1}, {RatingDeck})

SpecRatingWrites == InitRatingWrites /\ [][NextRatingWrites]_vars

\* ------------------------------------------------------------------------
\* Claim on concurrent writes of a rating
\* ------------------------------------------------------------------------
\* C21: of two rating writes on a card issued without waiting for each
\* other, the one that reaches the repository last gives the stored rating,
\* whichever was issued first: the rating of a card is the one of the latest
\* write that reached it, no write is rejected, and a write changes no
\* field of the card but rating and updatedAt.
C21_LastRatingWriteWins ==
  /\ [](/\ console = {}
        /\ lastUpdate.op = "updateDoc" =>
             cardDocs[lastUpdate.id].rating = lastUpdate.fields.rating)
  /\ [][\A id \in DOMAIN cardDocs :
          cardDocs'[id] # cardDocs[id] =>
            /\ lastUpdate'.id = id
            /\ \A k \in DOMAIN cardDocs[id] \ {"rating", "updatedAt"} :
                 cardDocs'[id][k] = cardDocs[id][k]]_vars

\* The write of 3.1 issued at time 0 in the other session reached the
\* repository after the write of 5.0 made at time 1.
C21_Witness ==
  /\ lastCall.handler = "handleRatingChange"
  /\ lastCall.at = 1
  /\ lastCall.arg = Num(520)
  /\ lastUpdate.op = "updateDoc"
  /\ lastUpdate.fields.rating = Num(31)
  /\ cardDocs[1].rating = Num(31)
  /\ cardDocs[1].updatedAt = 0

\* ------------------------------------------------------------------------
\* The writes of a card and the clock
\* ------------------------------------------------------------------------
NextTimestamps ==
  \/ Tick
  \/ \E card \in Rendered : ToggleBomb(card)
  \/ \E card \in Rendered : ToggleCustomAttribute(card, "y")
  \/ handleDeleteCustomAttribute("x")
  \/ UpdateAttributeCard(TRUE)
  \/ DeleteAttributeDoc(TRUE)
  \/ onSnapshotCards

SpecTimestamps == InitDeleteAttribute /\ [][NextTimestamps]_vars

\* ------------------------------------------------------------------------
\* Claim on updatedAt
\* ------------------------------------------------------------------------
\* C22: every write that creates or changes a card document sets its
\* updatedAt to the time of that write, that of the call for the writes of
\* a bulk assignment.
C22_WritesSetUpdatedAt ==
  [][\A id \in DOMAIN cardDocs' :
       (IF id \in DOMAIN cardDocs THEN cardDocs'[id] # cardDocs[id] ELSE TRUE) =>
         IF cardDocs'[id].updatedAt = now THEN TRUE
         ELSE IF bulkTask.status = "idle" THEN FALSE
         ELSE cardDocs'[id].updatedAt = bulkTask.at]_vars

\* ------------------------------------------------------------------------
\* Cards that lack fields
\* ------------------------------------------------------------------------
\* The fields a card document may lack
CardFields == {"color", "rarity", "type", "rating", "manaCost", "isBomb",
               "customAttributeIds", "name", "comment", "setId"}

\* What reading an absent field gives: undefined, written "undefined" for
\* the fields held as tokens and FALSE for isBomb, which the code reads
\* only through its truth value (App.js:637)
Absent(field) ==
  CASE field \in {"color", "customAttributeIds"} -> NoArr
    [] field \in {"name", "comment"} -> NoStr
    [] field \in {"rating", "manaCost"} -> Undefined
    [] field = "isBomb" -> FALSE
    [] OTHER -> "undefined"

Lacking(card, missing) ==
  [k \in DOMAIN card |-> IF k \in missing THEN Absent(k) ELSE card[k]]

\* undefined and null have no properties: a property read or a method
\* call on one of them raises a TypeError
HasNoProperties(x) == x.t \in {"undefined", "null"}

\* The values that are truthy
TruthyValue(x) ==
  CASE x.t = "array" -> TRUE
    [] x.t = "string" -> x.v # <<>>
    [] x.t = "number" -> x.n # 0
    [] x.t \in {"Infinity", "-Infinity"} -> TRUE
    [] OTHER -> FALSE

\* The callback of cards.filter with card.name.toLowerCase() called
\* whatever card.name is.
matchesThrowsUnguarded(card, f, setId) ==
  IF Truthy(setId) /\ card.setId # setId THEN FALSE
  ELSE IF f.colors # {} /\ ~colorGate(card, f) THEN FALSE
  ELSE IF f.rarities # {} /\ card.rarity \notin f.rarities THEN FALSE
  ELSE IF f.types # {} /\ card.type \notin f.types THEN FALSE
  ELSE IF f.isBomb /\ ~card.isBomb THEN FALSE
  ELSE IF /\ f.customAttributeIds # {}
          /\ TruthyValue(card.customAttributeIds)
          /\ HasNoProperties(card.customAttributeIds) THEN TRUE
  ELSE IF f.customAttributeIds # {} /\ ~customAttributeGate(card, f) THEN FALSE
  ELSE /\ f.searchTerm # <<>>
       /\ \/ HasNoProperties(card.name)
          \/ TruthyValue(card.comment) /\ HasNoProperties(card.comment)

\* The callback of cards.filter (App.js:616-650) raises a TypeError: of
\* the criteria reached, the one on customAttributeIds calls includes on
\* the field when it is truthy (App.js:639), the search calls toLowerCase
\* on name and on comment when they are truthy (App.js:645-646); the
\* others call no method of a field
matchesThrows(card, f, setId) ==
  IF Truthy(setId) /\ card.setId # setId THEN FALSE
  ELSE IF f.colors # {} /\ ~colorGate(card, f) THEN FALSE
  ELSE IF f.rarities # {} /\ card.rarity \notin f.rarities THEN FALSE
  ELSE IF f.types # {} /\ card.type \notin f.types THEN FALSE
  ELSE IF f.isBomb /\ ~card.isBomb THEN FALSE
  ELSE IF /\ f.customAttributeIds # {}
          /\ TruthyValue(card.customAttributeIds)
          /\ HasNoProperties(card.customAttributeIds) THEN TRUE
  ELSE IF f.customAttributeIds # {} /\ ~customAttributeGate(card, f) THEN FALSE
  ELSE /\ f.searchTerm # <<>>
       /\ \/ TruthyValue(card.name) /\ HasNoProperties(card.name)
          \/ TruthyValue(card.comment) /\ HasNoProperties(card.comment)

getFilteredCardsThrows(cs, f, setId) ==
  \E i \in DOMAIN cs : matchesThrows(cs[i], f, setId)

\* The comparator (App.js:655-696) raises a TypeError: it reads the length
\* of a.color || [] (App.js:660-661) and calls localeCompare on
\* a.name || '' (App.js:662-663, 685, 689)
compareThrows(a, b, key) ==
  LET colorsOrNone(c) == IF TruthyValue(c.color) THEN c.color ELSE Arr(<<>>)
      nameOrEmpty(c) == IF TruthyValue(c.name) THEN c.name ELSE Str(<<>>)
  IN  \/ HasNoProperties(colorsOrNone(a))
      \/ HasNoProperties(colorsOrNone(b))
      \/ /\ key \in {"name-asc", "name-desc"}
         /\ HasNoProperties(nameOrEmpty(a)) \/ HasNoProperties(nameOrEmpty(b))

\* sort calls the comparator on the pairs of a list of two cards or more
getSortedCardsThrows(key, filtered) ==
  \E i, j \in DOMAIN filtered : i # j /\ compareThrows(filtered[i], filtered[j], key)

\* getTieredCards (App.js:700-721) raises a TypeError: it calls toString
\* on Math.floor(card.rating || 0) (App.js:706)
getTieredCardsThrows(sorted) ==
  \E i \in DOMAIN sorted : HasNoProperties(OrZero(sorted[i].rating))

\* The filters with one criterion each, and with none
GateFilters ==
  {NoFilters,
   [NoFilters EXCEPT !.colors = {"Red"}],
   [NoFilters EXCEPT !.rarities = {"Rare"}],
   [NoFilters EXCEPT !.types = {"Creature"}],
   [NoFilters EXCEPT !.isBomb = TRUE],
   [NoFilters EXCEPT !.customAttributeIds = {"x"}],
   [NoFilters EXCEPT !.searchTerm = <<"b">>]}

\* The empty snapshot, and the snapshots of a card that lacks a subset of
\* its fields followed by a card that has them all
MissingInputs ==
  {<<>>} \cup {WithIds(<<Lacking(PassingCard, missing), PassingCard>>) :
                 missing \in SUBSET CardFields}

InitMissing == InitWith({1}, MissingInputs)

NextMissing ==
  \/ \E f \in GateFilters : SetFilters(f)
  \/ \E key \in {"default", "rating-desc", "manaCost-asc", "name-desc"} : SetSortBy(key)
  \/ SetCurrentSetId("s1")

SpecMissing == InitMissing /\ [][NextMissing]_vars

\* ------------------------------------------------------------------------
\* Claim on the cards that lack fields
\* ------------------------------------------------------------------------
\* C23: for every snapshot, the empty one and those whose cards lack any
\* subset of their fields included, getFilteredCards, getSortedCards and
\* getTieredCards raise no error and return a result: a sublist of the
\* snapshot, an ordering of that sublist and six buckets; the empty
\* snapshot gives an empty list and six empty buckets.
C23_PipelineTotal ==
  /\ ~getFilteredCardsThrows(cards, filters, currentSetId)
  /\ ~getSortedCardsThrows(sortBy, filteredCards)
  /\ ~getTieredCardsThrows(filteredAndSortedCards)
  /\ Elems(filteredCards) \subseteq Elems(cards)
  /\ Len(filteredAndSortedCards) = Len(filteredCards)
  /\ Elems(filteredAndSortedCards) = Elems(filteredCards)
  /\ DOMAIN tieredCards = Elems(TierKeys)
  /\ cards = <<>> =>
       /\ filteredAndSortedCards = <<>>
       /\ \A key \in DOMAIN tieredCards : tieredCards[key] = <<>>

\* A card that lacks its ten fields goes through the search criterion and
\* is sorted by name with a card that has them all.
C23_Witness ==
  /\ Len(cards) = 2
  /\ cards[1] = [Lacking(PassingCard, CardFields) EXCEPT !.id = 1]
  /\ filters.searchTerm = <<"b">>
  /\ sortBy = "name-desc"
  /\ Len(filteredAndSortedCards) = 1

\* ------------------------------------------------------------------------
\* Toggles of the bomb flag
\* ------------------------------------------------------------------------
NextBombToggle ==
  \/ \E card \in Rendered : ToggleBomb(card)
  \/ onSnapshotCards
  \/ Tick

\* Two cards of set s1
BombDeck == WithIds(<<newCard(<<"A">>, <<"Red">>, "s1"), newCard(<<"B">>, <<"Red">>, "s1")>>)

InitBombToggle == InitWith({1}, {BombDeck})

SpecBombToggle == InitBombToggle /\ [][NextBombToggle]_vars

\* ------------------------------------------------------------------------
\* Claim on toggleBomb
\* ------------------------------------------------------------------------
\* C24: two toggleBomb commands on a card with no other write to it in
\* between leave the stored isBomb of the card as it was before the first,
\* wherever the snapshot deliveries fall.
C24_ToggleBombInvolution ==
  (/\ lastCall.handler = "handleToggleBomb"
   /\ lastCall.previous.called
   /\ lastCall.previous.cardId = lastCall.cardId) =>
    cardDocs[lastCall.cardId].isBomb = lastCall.previous.before

\* ------------------------------------------------------------------------
\* Toggles of the custom attributes
\* ------------------------------------------------------------------------
NextAttributeToggle ==
  \/ \E card \in Rendered, attributeId \in {"x", "y"} :
       ToggleCustomAttribute(card, attributeId)
  \/ onSnapshotCards
  \/ Tick

SpecAttributeToggle == InitDeleteAttribute /\ [][NextAttributeToggle]_vars

\* ------------------------------------------------------------------------
\* Claim on toggleAttribute
\* ------------------------------------------------------------------------
\* C25: a toggle of attribute X on a card changes the membership of X
\* only: every other attribute is among the stored customAttributeIds of
\* the card after the toggle exactly when it was before, wherever the
\* snapshot deliveries fall between the toggles.
C25_ToggleChangesOneAttribute ==
  lastCall.handler = "handleToggleCustomAttribute" =>
    \A other \in {"x", "y"} \ {lastCall.attributeId} :
      (other \in storedAttributes(lastCall.cardId)) = (other \in lastCall.before)

\* ------------------------------------------------------------------------
\* The sets: listener, selector, handleAddSet
\* ------------------------------------------------------------------------
\* currentSetId after the listener of the sets collection has received
\* fetchedSets; the listener is subscribed again whenever currentSetId
\* changes (App.js:364), so the currentSetId it reads is the current one.
\* The listener that replaces an empty selection only.
afterSetsSnapshotNoCheck(fetchedSets, setId) ==
  IF fetchedSets # {} /\ ~Truthy(setId)
  THEN otherSetOf(fetchedSets \cup {"none"}, "none")
  ELSE IF fetchedSets = {} THEN "null"
  ELSE setId

\* currentSetId after the listener of the sets collection has received
\* fetchedSets (App.js:347-355); the listener is subscribed again whenever
\* currentSetId changes (App.js:364), so the currentSetId it reads is the
\* current one; the first set is the first of SetIds that is fetched
afterSetsSnapshot(fetchedSets, setId) ==
  IF fetchedSets # {} /\ (~Truthy(setId) \/ setId \notin fetchedSets)
  THEN otherSetOf(fetchedSets \cup {"none"}, "none")
  ELSE IF fetchedSets = {} THEN "null"
  ELSE setId

\* The listener of the sets collection (App.js:346-358); lastCall keeps the
\* snapshot and the currentSetId that results
onSnapshotSets ==
  LET next == afterSetsSnapshot(setDocs, currentSetId)
  IN  /\ lastCall' = [handler |-> "onSnapshotSets", fetchedSets |-> setDocs,
                      currentSetId |-> next]
      /\ currentSetId' = next
      /\ UNCHANGED <<revision, cards, filters, sortBy, displayMode, stores, lastUpdate,
                     console, forms, tasks, world, cardTasks>>
      /\ Render(revision, cards, filters, next, sortBy, displayMode)

\* handleAddSet (App.js:548-556): addDoc gives the set an id that is not in
\* use, and the new set becomes the current one; a rejection is logged
handleAddSet(setId, ok) ==
  /\ ~loading
  /\ setId \notin setDocs \cup {currentSetId}
  /\ lastCall' = [handler |-> "handleAddSet"]
  /\ setDocs' = IF ok THEN setDocs \cup {setId} ELSE setDocs
  /\ console' = IF ok THEN console ELSE console \cup {"Error adding set:"}
  /\ currentSetId' = IF ok THEN setId ELSE currentSetId
  /\ UNCHANGED <<revision, cards, filters, sortBy, displayMode, cardDocs,
                 customAttributeDocs, storage, lastUpdate, forms, tasks, world, cardTasks>>
  /\ Render(revision, cards, filters, currentSetId', sortBy, displayMode)

\* A set is deleted in another session of the user
OtherSessionDeleteSet(setId) ==
  /\ setId \in setDocs
  /\ setDocs' = setDocs \ {setId}
  /\ UNCHANGED <<cardDocs, customAttributeDocs, storage, history, forms, tasks, world, cardTasks>>
  /\ UnchangedView

\* One card, in the set s1
SetsDeck ==
  [i \in 1..1 |->
     uploadedCard("A", [files |-> <<>>, colors |-> <<"Red">>, setId |-> SetIds[i],
                        isDoubleFaced |-> FALSE, backFaceFile |-> ""], i)]

InitSets == InitWith({1}, {SetsDeck})

NextSets ==
  \/ onSnapshotSets
  \/ \E setId \in Elems(SetIds), ok \in BOOLEAN : handleAddSet(setId, ok)
  \/ \E setId \in Elems(SetIds) : OtherSessionDeleteSet(setId)
  \/ \E setId \in Elems(SetIds) \cup {""} : SetCurrentSetId(setId)
  \/ \E setId \in Elems(SetIds) : handleDeleteSet(setId)
  \/ QuerySetCards
  \/ DeleteSetCard(1, TRUE, TRUE, TRUE)
  \/ \E ok \in BOOLEAN : DeleteSetDoc(ok)
  \/ onSnapshotCards

SpecSets == InitSets /\ [][NextSets]_vars

\* ------------------------------------------------------------------------
\* Claim on currentSetId
\* ------------------------------------------------------------------------
\* C26: when a sets snapshot has been processed, currentSetId is the id of
\* a set of that snapshot if the snapshot is not empty and null if it is,
\* whatever sets were added, deleted and selected before.
C26_CurrentSetInSnapshot ==
  lastCall.handler = "onSnapshotSets" =>
    IF lastCall.fetchedSets = {} THEN lastCall.currentSetId = "null"
    ELSE lastCall.currentSetId \in lastCall.fetchedSets

\* The current set was deleted in another session: the snapshot without it
\* made another set the current one.
C26_Witness ==
  /\ lastCall.handler = "onSnapshotSets"
  /\ lastCall.fetchedSets = {"s2", "s3"}
  /\ currentSetId = "s2"
  /\ deleteSetTask.status = "idle"
  /\ "s1" \notin setDocs

\* ------------------------------------------------------------------------
\* handleDeleteCard
\* ------------------------------------------------------------------------
\* The value of an image field that handleDelete passes (App.js:947):
\* undefined, like the field of a card without image, is falsy
imageArg(card, field) == IF field \in DOMAIN card THEN card[field] ELSE NoImage

\* The awaited calls of handleDeleteCard for its arguments (App.js:450-468):
\* deleteObject for each image url that is truthy, then deleteDoc
deleteCardSteps(imageUrl, backFaceImageUrl) ==
  (IF imageUrl # NoImage THEN <<"front">> ELSE <<>>)
    \o (IF backFaceImageUrl # NoImage THEN <<"back">> ELSE <<>>)
    \o <<"doc">>

\* The delete button of the edit form (App.js:946-949): handleDeleteCard
\* runs up to its first await (App.js:443-458) when the user confirms, then
\* the form is closed; before is the cards collection at the time of the call
handleDelete(confirmed) ==
  /\ editedCard # NoCard
  /\ ~loading
  /\ lastCall' = [handler |-> "handleDeleteCard", cardId |-> editedCard.id,
                  confirmed |-> confirmed]
  /\ editingCard' = NoCard
  /\ editedCard' = NoCard
  /\ IF confirmed
     THEN /\ loading' = TRUE
          /\ bulkModal' = [bulkModal EXCEPT !.selectedCards = {}, !.selected = ""]
          /\ deleteCardTask' =
               [status |-> "running", cardId |-> editedCard.id,
                imageUrl |-> imageArg(editedCard, "imageUrl"),
                backFaceImageUrl |-> imageArg(editedCard, "backFaceImageUrl"),
                steps |-> deleteCardSteps(imageArg(editedCard, "imageUrl"),
                                          imageArg(editedCard, "backFaceImageUrl")),
                failedAt |-> "", before |-> cardDocs]
     ELSE UNCHANGED <<loading, bulkModal, deleteCardTask>>
  /\ UNCHANGED <<stores, lastUpdate, console, nextId, uploadTask, bulkTask,
                 deleteSetTask, deleteAttributeTask, world, backFaceTask>>
  /\ UnchangedView

\* The steps left to handleDeleteCard when every rejection of deleteObject
\* is passed over.
stepsAfterLenient(steps, ok) ==
  IF ok \/ Head(steps) # "doc" THEN Tail(steps) ELSE <<>>

\* The steps left to handleDeleteCard when the call it awaits settles
\* (App.js:449-473): a rejection leaves the try block
stepsAfter(steps, ok) == IF ok THEN Tail(steps) ELSE <<>>

\* The call that handleDeleteCard awaits settles (App.js:458, 467, 469): a
\* rejection is logged (App.js:470-471), and the end of the call, either
\* way, clears loading (App.js:472-473)
SettleDeleteCard(ok) ==
  /\ deleteCardTask.status = "running"
  /\ LET step == Head(deleteCardTask.steps)
         rest == stepsAfter(deleteCardTask.steps, ok)
         url == IF step = "front" THEN deleteCardTask.imageUrl
                ELSE deleteCardTask.backFaceImageUrl
         rejected == ~ok /\ rest = <<>>
     IN  /\ storage' = IF ok /\ step # "doc" THEN storage \ {url} ELSE storage
         /\ cardDocs' = IF ok /\ step = "doc"
                        THEN [id \in DOMAIN cardDocs \ {deleteCardTask.cardId} |-> cardDocs[id]]
                        ELSE cardDocs
         /\ console' = IF rejected THEN console \cup {"Error deleting card:"} ELSE console
         /\ deleteCardTask' =
              [deleteCardTask EXCEPT
                 !.steps = rest,
                 !.failedAt = IF ok THEN @ ELSE step,
                 !.status = IF rest # <<>> THEN "running"
                            ELSE IF rejected THEN "failed" ELSE "done"]
         /\ IF rest = <<>> THEN setLoading(FALSE)
            ELSE UNCHANGED <<loading, editedCard, bulkModal>>
  /\ UNCHANGED <<setDocs, customAttributeDocs, lastCall, lastUpdate, editingCard,
                 nextId, uploadTask, bulkTask, deleteSetTask, deleteAttributeTask,
                 world, backFaceTask>>
  /\ UnchangedView

\* Two cards: card 1 has two faces and two images, card 2 one image
DeleteDeck ==
  [i \in 1..2 |->
     uploadedCard(FileNames[i],
                  [files |-> <<>>, colors |-> <<"Red">>, setId |-> "s1",
                   isDoubleFaced |-> i = 1, backFaceFile |-> "a"],
                  i)]

InitDeleteCard == InitWith({1}, {DeleteDeck})

NextDeleteCard ==
  \/ \E card \in Rendered : OpenEdit(card)
  \/ CloseEdit
  \/ \E confirmed \in BOOLEAN : handleDelete(confirmed)
  \/ \E ok \in BOOLEAN : SettleDeleteCard(ok)
  \/ onSnapshotCards
  \/ Tick

SpecDeleteCard == InitDeleteCard /\ [][NextDeleteCard]_vars

\* ------------------------------------------------------------------------
\* Claim on a failed image deletion of handleDeleteCard
\* ------------------------------------------------------------------------
\* C29: when the deletion of the front or of the back image is rejected in
\* handleDeleteCard, the call ends there: the card records are as they were
\* when the call began, the card among them, the error is logged and
\* loading is cleared.
C29_ImageFailureKeepsCard ==
  (deleteCardTask.status # "idle" /\ deleteCardTask.failedAt \in {"front", "back"}) =>
    /\ deleteCardTask.status = "failed"
    /\ cardDocs = deleteCardTask.before
    /\ "Error deleting card:" \in console
    /\ ~loading

\* The front image of card 1 was deleted and the deletion of its back image
\* was rejected: the card is still stored.
C29_Witness ==
  /\ deleteCardTask.status = "failed"
  /\ deleteCardTask.cardId = 1
  /\ deleteCardTask.failedAt = "back"
  /\ 1 \in DOMAIN cardDocs
  /\ cardDocs[1].imageUrl \notin storage
  /\ ~loading

\* ------------------------------------------------------------------------
\* Claim on the buckets as a partition
\* ------------------------------------------------------------------------
\* The number of cards in the buckets of the first n keys
RECURSIVE BucketTotal(_)
BucketTotal(n) ==
  IF n = 0 THEN 0 ELSE Len(tieredCards[TierKeys[n]]) + BucketTotal(n - 1)

\* C28: the buckets of getTieredCards partition the filtered and sorted
\* list, whatever the ratings (below 0, above 5, unset): each card of the
\* list is in exactly one bucket, a bucket holds cards of the list only,
\* and the buckets hold as many cards as the list.
C28_TiersPartition ==
  /\ DOMAIN tieredCards = Elems(TierKeys)
  /\ \A i \in DOMAIN filteredAndSortedCards :
       Cardinality({key \in Elems(TierKeys) :
                      InBucket(filteredAndSortedCards[i], key)}) = 1
  /\ \A key \in Elems(TierKeys) :
       Elems(tieredCards[key]) \subseteq Elems(filteredAndSortedCards)
  /\ BucketTotal(Len(TierKeys)) = Len(filteredAndSortedCards)

\* Eight cards sorted by rating, among them ratings -0.5, 6.0 and 5.2 and
\* two unset ones: five are in bucket '0', two in '3' and one in '5'.
C28_Witness ==
  /\ sortBy = "rating-desc"
  /\ Len(filteredAndSortedCards) = 8
  /\ \E i, j, k \in DOMAIN filteredAndSortedCards :
       /\ HasRating(filteredAndSortedCards[i], -5)
       /\ HasRating(filteredAndSortedCards[j], 60)
       /\ filteredAndSortedCards[k].rating = Undefined
  /\ Len(tieredCards["0"]) = 5
  /\ Len(tieredCards["3"]) = 2
  /\ Len(tieredCards["5"]) = 1

\* ------------------------------------------------------------------------
\* Claim on a failed card deletion of handleDeleteSet
\* ------------------------------------------------------------------------
NextDeleteSetFailure ==
  \/ \E setId \in {"s1", "s2"} : SetCurrentSetId(setId)
  \/ handleDeleteSet("s1")
  \/ QuerySetCards
  \/ \E cardId \in 1..(MaxSetCards + 1), docOk \in BOOLEAN :
       DeleteSetCard(cardId, TRUE, TRUE, docOk)
  \/ \E ok \in BOOLEAN : DeleteSetDoc(ok)
  \/ onSnapshotCards

SpecDeleteSetFailure == InitDeleteSet /\ [][NextDeleteSetFailure]_vars

\* C30: when the deletion of a card record is rejected in handleDeleteSet,
\* the call fails and logs the error, the set record is not deleted, no
\* step of the call changes currentSetId, and the cards whose deletion was
\* fulfilled are deleted.
C30_CardFailureKeepsSet ==
  /\ [](deleteSetTask.status # "idle" /\ deleteSetTask.rejected # {} =>
          /\ deleteSetTask.status = "failed"
          /\ deleteSetTask.setId \in setDocs
          /\ ~deleteSetTask.setRejected
          /\ "Error deleting set:" \in console
          /\ \A id \in deleteSetTask.queried \ (deleteSetTask.pending \cup deleteSetTask.rejected) :
               id \notin DOMAIN cardDocs)
  /\ [][(/\ deleteSetTask' # deleteSetTask
         /\ deleteSetTask'.status # "idle"
         /\ deleteSetTask'.rejected # {}) =>
          (currentSetId' = currentSetId /\ setDocs' = setDocs)]_vars

\* The set s1 is the current one; the deletion of card 1 was fulfilled and
\* the one of card 2 rejected: s1 is still stored and still the current set.
C30_Witness ==
  /\ deleteSetTask.status = "failed"
  /\ deleteSetTask.rejected = {2}
  /\ deleteSetTask.pending = {}
  /\ 1 \notin DOMAIN cardDocs
  /\ 2 \in DOMAIN cardDocs
  /\ "s1" \in setDocs
  /\ currentSetId = "s1"
  /\ deleteSetTask.currentSetId = "s1"
  /\ ~loading

\* ------------------------------------------------------------------------
\* handleBackFaceFileChange and the loading flag
\* ------------------------------------------------------------------------
\* handleBackFaceFileChange of the edit form up to its first await
\* (App.js:924-931), for a file that was chosen
handleBackFaceFileChange(file) ==
  /\ editedCard # NoCard
  /\ ~loading
  /\ backFaceTask' = [status |-> "uploading", file |-> file]
  /\ lastCall' = [handler |-> "handleBackFaceFileChange"]
  /\ setLoading(TRUE)
  /\ UNCHANGED <<stores, lastUpdate, console, editingCard, nextId, uploadTask, bulkTask,
                 deleteSetTask, deleteAttributeTask, world, deleteCardTask>>
  /\ UnchangedView

\* A handler that clears loading at the end of its try block only.
clearsLoadingOnSuccess(status, ok) == status = "getting url" /\ ok

\* Whether handleBackFaceFileChange clears loading when the call it awaits
\* settles (App.js:929-938): the finally clause runs when getDownloadURL
\* has settled and when either call is rejected
clearsLoading(status, ok) == ~(status = "uploading" /\ ok)

\* uploadBytes or getDownloadURL settles (App.js:931-932); a rejection is
\* logged (App.js:934-935); the url set in the form (App.js:933) is lost in
\* the rendering of App that clearing loading causes
SettleBackFace(ok) ==
  /\ backFaceTask.status \in {"uploading", "getting url"}
  /\ storage' = IF backFaceTask.status = "uploading" /\ ok
                THEN storage \cup {BackPath(backFaceTask.file)} ELSE storage
  /\ console' = IF ok THEN console ELSE console \cup {"Error uploading back face image:"}
  /\ backFaceTask' = [backFaceTask EXCEPT !.status =
                        IF ~ok THEN "failed"
                        ELSE IF @ = "uploading" THEN "getting url" ELSE "done"]
  /\ IF clearsLoading(backFaceTask.status, ok) THEN setLoading(FALSE)
     ELSE UNCHANGED <<loading, editedCard, bulkModal>>
  /\ UNCHANGED <<cardDocs, setDocs, customAttributeDocs, lastCall, lastUpdate, editingCard,
                 nextId, uploadTask, bulkTask, deleteSetTask, deleteAttributeTask, world,
                 deleteCardTask>>
  /\ UnchangedView

\* One card with two faces, in the set s1
LoadingDeck ==
  <<uploadedCard("A", [files |-> <<>>, colors |-> <<"Red">>, setId |-> "s1",
                       isDoubleFaced |-> TRUE, backFaceFile |-> "a"], 1)>>

\* The request of one file for the set s1
LoadingRequest ==
  [files |-> <<"B">>, colors |-> <<"Red">>, setId |-> "s1", isDoubleFaced |-> FALSE,
   backFaceFile |-> ""]

InitLoading == InitWith({1}, {LoadingDeck})

\* The operations that set loading and have been started
Started ==
  {name \in {"upload", "card deletion", "back face", "set deletion", "bulk"} :
     CASE name = "upload" -> uploadTask.status # "idle"
       [] name = "card deletion" -> deleteCardTask.status # "idle"
       [] name = "back face" -> backFaceTask.status # "idle"
       [] name = "set deletion" -> deleteSetTask.status # "idle"
       [] name = "bulk" -> bulkTask.status # "idle"}

\* The handlers return at once or cannot be reached while loading is set
\* (App.js:1483-1489), so that two operations never run together: a
\* behaviour runs operations of one kind, as often as it likes
NextLoading ==
  \/ Started \subseteq {"upload"} /\ handleUploadCards(LoadingRequest)
  \/ \E outcome \in UploadOutcomes : UploadFile(outcome)
  \/ \E card \in Rendered : OpenEdit(card)
  \/ Started \subseteq {"card deletion"} /\ handleDelete(TRUE)
  \/ \E ok \in BOOLEAN : SettleDeleteCard(ok)
  \/ Started \subseteq {"back face"} /\ handleBackFaceFileChange("b")
  \/ \E ok \in BOOLEAN : SettleBackFace(ok)
  \/ Started \subseteq {"set deletion"} /\ handleDeleteSet("s1")
  \/ QuerySetCards
  \/ \E cardId \in 1..(MaxFiles + 1), docOk \in BOOLEAN :
       DeleteSetCard(cardId, TRUE, TRUE, docOk)
  \/ \E ok \in BOOLEAN : DeleteSetDoc(ok)
  \/ \E field \in BulkFields : OpenBulk(field)
  \/ handleSelectAll
  \/ SetSelected(BulkValue(bulkModal.open))
  \/ Started \subseteq {"bulk"} /\ handleApply
  \/ \E cardId \in 1..(MaxFiles + 1), fulfilled \in BOOLEAN :
       SettleBulkWrite(cardId, fulfilled)
  \/ onSnapshotCards

\* Every backend call settles at last: the steps that settle one are taken
\* when they stay enabled
SpecLoading ==
  /\ InitLoading
  /\ [][NextLoading]_vars
  /\ WF_vars(\E outcome \in UploadOutcomes : UploadFile(outcome))
  /\ WF_vars(\E ok \in BOOLEAN : SettleDeleteCard(ok))
  /\ WF_vars(\E ok \in BOOLEAN : SettleBackFace(ok))
  /\ WF_vars(QuerySetCards)
  /\ WF_vars(\E cardId \in 1..(MaxFiles + 1), docOk \in BOOLEAN :
               DeleteSetCard(cardId, TRUE, TRUE, docOk))
  /\ WF_vars(\E ok \in BOOLEAN : DeleteSetDoc(ok))
  /\ WF_vars(\E cardId \in 1..(MaxFiles + 1), fulfilled \in BOOLEAN :
               SettleBulkWrite(cardId, fulfilled))

=============================================================================
